---- MODULE Spec2Model ----
(***************************************************************************)
(* Model of pccg-rs: the Firestore REST client (storage/src/firestore.rs)  *)
(* with its transactions, read cache, write buffer and drop worker, and    *)
(* the engine's optimistic retry loops (engine/src/api.rs).                *)
(*                                                                         *)
(* Spec        every operation of the storage client, one transaction on   *)
(*             one document name                                           *)
(* SpecWrites  the write path, commit, the reads without transaction and   *)
(*             list, on all document names                                 *)
(* SpecDrop    handles begun, committed, aborted and discarded, and the    *)
(*             drop worker, for all transactions                           *)
(* SpecEngine  claim_user_daily_reward and draw_card run by concurrent     *)
(*             callers within one day                                      *)
(* SpecRetry   the same operations run by one caller over the days while   *)
(*             another process writes the user document                    *)
(* SpecReads   get, batch_get and list on all document names, with one     *)
(*             transaction and another writer                              *)
(* SpecInsert  insert with the writes and reads without transaction         *)
(* SpecKinds   ReadOnly and ReadWrite transactions with their writes       *)
(* SpecToken   the task that refreshes the OAuth token, the request paths  *)
(*             that read the token, and the manager being discarded        *)
(* SpecCodec   values of the entity types encoded into documents, echoed   *)
(*             by the store or damaged, and decoded                        *)
(* SpecCompendium  Compendium::upsert_card and from_file                   *)
(* SpecJobs    jobs taken and completed while the clock advances           *)
(* SpecAttempts the attempts of one caller's engine operations             *)
(* SpecComplete, SpecTakeJob, SpecStage  concurrent callers of            *)
(*             complete_job, of take_job, of promote_ and scrap_staged_card *)
(* SpecRegistry add_user and mutate_user_if of the UserRegistry            *)
(* SpecWorker  the drop worker until it stops, with the handles and the    *)
(*             Firestore value being discarded                             *)
(*                                                                         *)
(* The remote document store is not code of this repository.  It is        *)
(* modelled from spec.md (optimistic concurrency: a commit is rejected     *)
(* with a contention status when a document the transaction read has been  *)
(* written since).                                                         *)
(*                                                                         *)
(* Transaction::commit and Transaction::abort take `self` by value, so     *)
(* safe Rust cannot call them twice on one handle.  The code nevertheless  *)
(* carries the branches for a Finalized transaction (writes = None); the   *)
(* model lets a caller invoke every method in every state of the handle,   *)
(* as the state machine of spec.md section 4.4 does, so that those         *)
(* branches are exercised.                                                 *)
(***************************************************************************)
EXTENDS Integers, Sequences, FiniteSets, TLC

\* ------------------------------------------------------------------ bounds
MaxName == 2
\* document names (ids) of the collection
MaxTxn == 3
\* transaction ids the store issues in one run
MaxSpecName == 1
\* names the caller of Spec reads and writes
MaxSpecTxn == 1
\* transactions the caller of Spec and SpecWrites begins
MaxVal == 1
\* decodable document contents are 0..MaxVal
MaxWrites == 2
\* writes buffered in one transaction
MaxVer == 1
\* direct (non-transactional) writes stop once a document reached this version
MaxPending == 2
\* GET requests in flight for one (transaction, name)
DropQueueCap == 1
\* slots of the drop channel (50 in the program, scaled down so that it fills)
PageSize == 1
\* documents in one page of a list response (100 in the program, scaled down)
MaxClient == 2
\* concurrent callers of the engine
MaxDay == 1
\* calendar days are 0..MaxDay
MaxTouch == 3
\* writes of another process to the user document
MaxToken == 1
\* access tokens are 0..MaxToken
MaxRequest == 2
\* request paths reading the token
MaxCard == 2
\* ids of the cards of the compendium
MaxJob == 2
\* ids of the jobs of a user
MaxNow == 3
\* instants of the clock are 0..MaxNow
MaxDuration == 2
\* a job takes 0..MaxDuration instants
MaxApiCalls == 2
\* calls of an operation on jobs or on the staged card, per caller
MaxUser == 2
\* user ids of the UserRegistry
MaxCurrency == 1
\* the currency of a user of the UserRegistry

Names == 1..MaxName
Vals == 0..MaxVal
Txns == 1..MaxTxn
NoTx == 0
SpecNames == 1..MaxSpecName
SpecTxns == 1..MaxSpecTxn

\* ------------------------------------------------------- Option and Result
None == <<>>
Some(x) == <<x>>
IsSome(o) == Len(o) = 1
IsNone(o) == Len(o) = 0
Unwrap(o) == o[1]

\* storage::Result: Ok(val) or Err(variant, message)
Ok(v) == [ok |-> TRUE, val |-> v, err |-> "", msg |-> ""]
Err(e, m) == [ok |-> FALSE, val |-> None, err |-> e, msg |-> m]

\* --------------------------------------------------------------- documents
\* A Document as far as a typed read is concerned: whether its fields fit the
\* requested type T, and the value they decode to.
Document(v) == [fits |-> TRUE, v |-> v]
Malformed(v) == [fits |-> FALSE, v |-> v]

\* T::try_from(Document)
try_into(doc) == IF doc.fits THEN Ok(Some(doc.v)) ELSE Err("Convert", "")

\* Write::Update { update: doc } and Write::Delete { delete: name }
WriteUpdate(name, doc) == [kind |-> "update", name |-> name, doc |-> Some(doc)]
WriteDelete(name) == [kind |-> "delete", name |-> name, doc |-> None]

VARIABLES
    docs,           \* store: name -> Option<Document>
    ver,            \* store: name -> number of writes applied to it
    remote,         \* store: per transaction id, its server-side state
    transactions,   \* client: the Transaction handles
    pending,        \* client: GET requests of a transaction still in flight
    drop_queue,     \* the mpsc channel to the drop worker
    drop_worker,    \* "running" or "panicked"
    abort_waiting,  \* transactions whose abort() waits for a channel slot
    listing,        \* client: the list() call in progress
    lastOp,         \* the operation that was performed last, and its outcome
    hist,           \* history of each transaction (what was sent and applied)
    calls,          \* engine: per caller, the operation it runs and where it is
    today,          \* engine: the date of Utc::now()
    touched,        \* writes of another process to the user document so far
    ledger,         \* the user's starting currency, and the claims and draws
                    \* the store applied
    oauth_token,    \* token manager: the cached access token
    oauth_expires_in, \* refresh task: lifetime of the token in seconds (u64)
    oauth_task,     \* refresh task: where it is, and what it last did
    oauth_lock,     \* the RwLock around the token: writer and readers
    requests,       \* request paths reading the token
    manager,        \* "alive" or "discarded" (the oneshot sender is dropped)
    after_discard,  \* what the refresh task did since the manager was discarded
    codec,          \* models: a value, its document, and what decoding gave
    compendium,     \* Compendium: the cards in memory and in the file
    jobs,           \* engine: the clock, the jobs of a user and complete_job
    board,          \* engine: the documents of one user, and the callers of
                    \* complete_job, take_job, promote_ and scrap_staged_card
    registry        \* UserRegistry: the users in memory and in storage

storeVars == <<docs, ver, remote>>
dropVars == <<drop_queue, drop_worker, abort_waiting>>
engineVars == <<calls, today, touched, ledger>>
tokenVars == <<oauth_token, oauth_expires_in, oauth_task, oauth_lock, requests,
               manager, after_discard>>
clientVars == <<docs, ver, remote, transactions, pending, drop_queue, drop_worker,
                abort_waiting, listing, lastOp, hist, calls, today, touched, ledger>>
modelVars == <<codec, compendium, jobs, board, registry>>
restVars == <<tokenVars, modelVars>>
vars == <<clientVars, tokenVars, modelVars>>

\* ------------------------------------------------------------- the store
NotRead == -1

\* enum TransactionType
TransactionType == {"ReadOnly", "ReadWrite"}

RemoteNone == [state |-> "none", kind |-> "ReadWrite",
               reads |-> [n \in Names |-> NotRead]]

\* :beginTransaction with ReadWrite options
RemoteBeginAs(kind) == [state |-> "active", kind |-> kind,
                        reads |-> [n \in Names |-> NotRead]]
RemoteBegin == RemoteBeginAs("ReadWrite")

\* a transaction that ended at the store (committed, aborted or rolledback):
\* what it read is forgotten
RemoteEnd(state) == [state |-> state, kind |-> "ReadWrite",
                     reads |-> [n \in Names |-> NotRead]]

\* a store that would show a transaction the writes its client has buffered
StoreReadOwnWrites(t, n) ==
    IF t # NoTx /\ IsSome(hist[t].buffered[n])
    THEN Unwrap(hist[t].buffered[n]) ELSE docs[n]

\* what a read of n returns: a ReadWrite transaction observes the writes of
\* other completed transactions up to the point the read executes
StoreRead(t, n) == docs[n]

\* the read is remembered with the version it saw (first read wins)
RemoteAfterRead(t, n) ==
    [remote EXCEPT ![t].reads[n] = IF @ = NotRead THEN ver[n] ELSE @]

StaleIn(rem, v, t) ==
    \E n \in Names : rem[t].reads[n] # NotRead /\ rem[t].reads[n] # v[n]
Stale(t) == StaleIn(remote, ver, t)

\* the status the store answers a :commit of transaction t with writes w
StoreCommitStatus(t, w) ==
    IF remote[t].state # "active" THEN 400
    ELSE IF remote[t].kind = "ReadOnly" /\ w # <<>> THEN 400
    ELSE IF Stale(t) THEN 409
    ELSE 200

RECURSIVE ApplyWrites(_, _)
ApplyWrites(d, w) ==
    IF w = <<>> THEN d
    ELSE ApplyWrites([d EXCEPT ![Head(w).name] = Head(w).doc], Tail(w))

RECURSIVE BumpVersions(_, _)
BumpVersions(v, w) ==
    IF w = <<>> THEN v
    ELSE BumpVersions([v EXCEPT ![Head(w).name] = @ + 1], Tail(w))

\* ------------------------------------------------------ Transaction (client)
NoHandle == [state |-> "none", writes |-> None,
             read_cache |-> [n \in Names |-> None]]

\* Transaction::new
TransactionNew == [state |-> "held", writes |-> Some(<<>>),
                   read_cache |-> [n \in Names |-> None]]

\* the handle after drop: cache and buffer are freed
Dropped == [state |-> "dropped", writes |-> None,
            read_cache |-> [n \in Names |-> None]]

\* no list() in progress; dirty: the collection was written while the last
\* list() ran
ListIdle(dirty) == [active |-> FALSE, token |-> None, ret |-> <<>>, dirty |-> dirty]
Disturbed(l) == IF l.active THEN [l EXCEPT !.dirty = TRUE] ELSE l

IsOpen(t) == IsSome(transactions[t].writes)
Held == {t \in Txns : transactions[t].state = "held"}
Quiet(t) == \A n \in Names : pending[t][n] = 0

\* variants of append_write that lose the write, or put it first
append_write_lost(writes, write) ==
    IF IsSome(writes) THEN [writes |-> writes, res |-> Ok(None)]
    ELSE [writes |-> writes, res |-> Err("InvalidState", "")]

append_write_first(writes, write) ==
    IF IsSome(writes) THEN [writes |-> Some(<<write>> \o Unwrap(writes)), res |-> Ok(None)]
    ELSE [writes |-> writes, res |-> Err("InvalidState", "")]

\* Transaction::append_write on the Option<Vec<Write>>
append_write(writes, write) ==
    IF IsSome(writes) THEN [writes |-> Some(Append(Unwrap(writes), write)), res |-> Ok(None)]
    ELSE [writes |-> writes, res |-> Err("InvalidState", "")]

\* impl Into<storage::Error> for TransactionError
TransactionErrorInto(res) ==
    IF res.ok THEN res ELSE Err("Other", res.err)

\* a variant of cache_read that keeps nothing
cache_read_nothing(cache, name, doc) == cache

\* Transaction::cache_read
cache_read(cache, name, doc) == [cache EXCEPT ![name] = Some(doc)]

\* a variant of commit_internal without the CONFLICT arm
commit_internal_no_conflict(status) ==
    IF status = 200 THEN Ok(None)
    ELSE Err("Other", "Non-success status code")

\* Transaction::commit_internal, the match on the response status
commit_internal(status) ==
    IF status = 200 THEN Ok(None)
    ELSE IF status = 409 THEN Err("Transaction", "Document contention, try again later")
    ELSE Err("Other", "Non-success status code")

\* ------------------------------------------------------------ engine::Error
\* impl From<storage::Error> for engine::Error: the ErrorCode
ErrorFrom(e) == IF e = "Transaction" THEN "StorageTransaction" ELSE "StorageGeneric"

\* engine::Error::classify
classify(code) ==
    IF code \in {"CardNotFound", "CharacterNotFound", "IdMismatch", "JobNotFound",
                 "UserNotFound"} THEN "BadRequest"
    ELSE IF code \in {"CompendiumEmpty", "Other", "StorageGeneric"} THEN "Internal"
    ELSE IF code \in {"CharacterPreoccupied", "DailyAlreadyClaimed", "DrawStageEmpty",
                      "DrawStagePopulated", "InsufficientFunds"}
         THEN "FailedPrecondition"
    ELSE IF code = "StorageTransaction" THEN "InternalRetryable"
    ELSE "none"

\* a variant of the read request that leaves the transaction out
GetTransactionParamNone(t) == NoTx

\* the request of a transactional read carries the transaction id
GetTransactionParam(t) == t

\* finalizedBy: what took the writes ("commit", "abort", "drop"); applied: the
\* store applied the commit; seen: the status commit saw; wrote: the names in
\* the commit request; buffered: per name, the last write the caller handed to
\* the Open transaction (Some(None) is a delete); enqueued, rollbackSent: the
\* rollback went into the channel, the worker sent it; netOk: network reads
\* that returned Ok (counted up to 2); raced: two reads of the name were in
\* flight together; firstSome: the first value a get returned as Some
NoHist == [finalizedBy |-> "", applied |-> FALSE, seen |-> 0, wrote |-> {},
           buffered |-> [n \in Names |-> None],
           enqueued |-> 0, rollbackSent |-> FALSE,
           netOk |-> [n \in Names |-> 0], raced |-> [n \in Names |-> FALSE],
           firstSome |-> [n \in Names |-> None]]

Finalize(h, t, by) == [h EXCEPT ![t].finalizedBy = IF @ = "" THEN by ELSE @]

\* the history that outlives the handle
Forget(h, t) ==
    [h EXCEPT ![t] = [NoHist EXCEPT !.finalizedBy = h[t].finalizedBy,
                                    !.applied = h[t].applied,
                                    !.enqueued = h[t].enqueued,
                                    !.rollbackSent = h[t].rollbackSent]]

\* op: the method; tx, name: its arguments; open: the transaction was Open when
\* it was called; sent: the requests it sent; status: the response status;
\* res: what it returned; prior: for get, what an earlier get of the same
\* transaction and name returned as Some
NoOp == [op |-> "init", tx |-> NoTx, name |-> 0, open |-> FALSE, sent |-> <<>>,
         status |-> 0, res |-> Ok(None), prior |-> None]
Op(op, t, n, open, sent, status, res) ==
    [op |-> op, tx |-> t, name |-> n, open |-> open, sent |-> sent,
     status |-> status, res |-> res, prior |-> None]
OpGet(t, n, sent, status, res, prior) ==
    [op |-> "get", tx |-> t, name |-> n, open |-> FALSE, sent |-> sent,
     status |-> status, res |-> res, prior |-> prior]

Transport == -1
\* status of a request that got no response (hyper::Error)

\* ------------------------------------- Firestore::new: the token refresh task
\* values of the access token the token endpoint hands out
Tokens == 0 .. MaxToken
\* values of expires_in the token endpoint answers, in seconds
Lifetimes == {300, 600, 3600}
\* "Refresh token 10 minutes before expiration"
RefreshMargin == 600
\* oauth_expires_in after a failed refresh
RetryDelay == 10
Requesters == 1 .. MaxRequest

\* a u64 number of seconds.  2^64 is beyond the integers of the model checker,
\* so the value 2^64 + secs (secs < 0) that a wrapped subtraction leaves is
\* written [wrapped |-> TRUE, secs |-> secs]
Duration(secs) == [wrapped |-> FALSE, secs |-> secs]
wrapping_sub(a, b) == [wrapped |-> a < b, secs |-> a - b]

\* oauth_expires_in - 600 on u64: a build with overflow checks panics when the
\* subtraction underflows, a build without them wraps
delay_duration(expires_in) ==
    IF expires_in >= RefreshMargin
    THEN {[ok |-> TRUE, val |-> Duration(expires_in - RefreshMargin)]}
    ELSE {[ok |-> FALSE, val |-> Duration(0)],
          [ok |-> TRUE, val |-> wrapping_sub(expires_in, RefreshMargin)]}

\* oneshot::Receiver::try_recv: nothing is ever sent, the sender is dropped
\* with the manager
try_recv_empty(m) == "Empty"
try_recv(m) == IF m = "alive" THEN "Empty" ELSE "Closed"

\* the read guard is a temporary of the statement that builds the request
ReleaseReadLate(readers, r) == readers
ReleaseRead(readers, r) == readers \ {r}

NoRequest == [pc |-> "idle", token |-> 0]
Parked == [pc |-> "loop", delay |-> Duration(0), failed |-> FALSE, prev |-> 0,
           got |-> [token |-> 0, expires_in |-> 0]]
NotDiscarded == [asleep |-> FALSE, exchanges |-> 0, writes |-> 0, sleeps |-> 0]
Since(field) ==
    IF manager = "discarded"
    THEN [after_discard EXCEPT ![field] = IF @ < 2 THEN @ + 1 ELSE @]
    ELSE after_discard

\* the state Firestore::new leaves: the first token exchange succeeded
InitToken(L) ==
    /\ oauth_token = 0
    /\ oauth_expires_in \in L
    /\ oauth_task = Parked
    /\ oauth_lock = [writer |-> FALSE, readers |-> {}]
    /\ requests = [r \in Requesters |-> NoRequest]
    /\ manager = "alive"
    /\ after_discard = NotDiscarded

\* ---------------------------------------------- numbers written as strings
\* A decimal string is a sequence of characters.
Digit == <<"0", "1", "2", "3", "4", "5", "6", "7", "8", "9">>
DigitValue(c) == CHOOSE k \in 0..9 : Digit[k + 1] = c
IsDigit(c) == \E k \in 1..10 : Digit[k] = c

RECURSIVE Digits(_)
Digits(n) ==
    IF n < 10 THEN <<Digit[n + 1]>>
    ELSE Digits(n \div 10) \o <<Digit[(n % 10) + 1]>>

to_string_abs(n) == IF n < 0 THEN Digits(0 - n) ELSE Digits(n)

\* u32::to_string, i32::to_string
to_string(n) == IF n < 0 THEN <<"-">> \o Digits(0 - n) ELSE Digits(n)

\* the largest magnitude of an integer type, as a decimal string
\* (u32::MAX = 4294967295, i32::MAX = 2147483647, -i32::MIN = 2147483648)
MaxMagnitude(T, negative) ==
    IF T = "u32" THEN <<"4", "2", "9", "4", "9", "6", "7", "2", "9", "5">>
    ELSE IF negative THEN <<"2", "1", "4", "7", "4", "8", "3", "6", "4", "8">>
    ELSE <<"2", "1", "4", "7", "4", "8", "3", "6", "4", "7">>

RECURSIVE StripZeros(_)
StripZeros(ds) ==
    IF Len(ds) > 1 /\ ds[1] = "0" THEN StripZeros(Tail(ds)) ELSE ds

\* a <= b for two digit strings without leading zeros
DigitsLeq(a, b) ==
    \/ Len(a) < Len(b)
    \/ /\ Len(a) = Len(b)
       /\ \/ a = b
          \/ \E i \in 1..Len(a) :
                /\ DigitValue(a[i]) < DigitValue(b[i])
                /\ \A j \in 1..(i - 1) : a[j] = b[j]

RECURSIVE Magnitude(_)
Magnitude(ds) ==
    IF Len(ds) = 1 THEN DigitValue(ds[1])
    ELSE Magnitude(SubSeq(ds, 1, Len(ds) - 1)) * 10 + DigitValue(ds[Len(ds)])

\* str::parse::<T>() of the integer types: an optional sign ("-" only for the
\* signed type), at least one digit, nothing but digits, and the value in
\* the range of T
parse(s, T) ==
    LET negative == Len(s) > 0 /\ s[1] = "-" /\ T = "i32"
        signed == Len(s) > 0 /\ (s[1] = "+" \/ negative)
        ds == IF signed THEN Tail(s) ELSE s
        z == StripZeros(ds)
    IN  IF Len(ds) = 0 \/ (\E i \in 1..Len(ds) : ~IsDigit(ds[i]))
        THEN [ok |-> FALSE, val |-> 0]
        ELSE IF ~DigitsLeq(z, MaxMagnitude(T, negative))
        THEN [ok |-> FALSE, val |-> 0]
        ELSE IF z = MaxMagnitude("i32", TRUE)
        THEN [ok |-> TRUE, val |-> (0 - 2147483647) - 1]
        ELSE [ok |-> TRUE, val |-> IF negative THEN 0 - Magnitude(z) ELSE Magnitude(z)]

\* ------------------------------------------------------------- f64 values
\* An f64 is m * 10^e with m not divisible by ten (zero is 0 * 10^0); it is
\* integral when e >= 0.
F64(m, e) == [m |-> m, e |-> e]

RECURSIVE F64Normal(_, _)
F64Normal(m, e) ==
    IF m = 0 THEN F64(0, 0)
    ELSE IF m % 10 = 0 THEN F64Normal(m \div 10, e + 1)
    ELSE F64(m, e)

\* impl From<i32> for f64
F64FromI32(n) == F64Normal(n, 0)

IsIntegral(d) == d.e >= 0

\* the decimal string of an integral double
DecimalOf(d) ==
    IF d.m = 0 THEN <<"0">>
    ELSE to_string(d.m) \o [i \in 1..d.e |-> "0"]

\* ---------------------------------------------------------- DocumentField
NullValue == [tag |-> "NullValue", val |-> <<>>]
ArrayValue(values) == [tag |-> "ArrayValue", val |-> values]
DoubleValue(d) == [tag |-> "DoubleValue", val |-> d]
IntegerValue(s) == [tag |-> "IntegerValue", val |-> s]
MapValue(fields) == [tag |-> "MapValue", val |-> fields]
StringValue(s) == [tag |-> "StringValue", val |-> s]
TimestampValue(t) == [tag |-> "TimestampValue", val |-> t]

\* What a decoder returns.  Of an error the model keeps what its message
\* names: a field, and a kind of value ("" when the message names none).
Decoded(x) == [ok |-> TRUE, val |-> <<x>>, err |-> "", field |-> "", kind |-> ""]
DecodeErr(field, kind) ==
    [ok |-> FALSE, val |-> <<>>, err |-> "Decode", field |-> field, kind |-> kind]
\* .unwrap() on None or Err
DecodePanic == [ok |-> FALSE, val |-> <<>>, err |-> "Panic", field |-> "", kind |-> ""]
Value(r) == r.val[1]

\* the first error of a sequence of results: what a chain of `?` returns
FirstErr(rs) ==
    rs[CHOOSE i \in 1..Len(rs) : ~rs[i].ok /\ \A j \in 1..(i - 1) : rs[j].ok]
AllOk(rs) == \A i \in 1..Len(rs) : rs[i].ok

\* Uuid::to_string and Uuid::parse_str
UuidText == <<"00000000-0000-0000-0000-000000000001",
              "00000000-0000-0000-0000-000000000002">>
Uuids == 1..Len(UuidText)
uuid_to_string(u) == UuidText[u]
parse_str(s) ==
    IF \E u \in Uuids : UuidText[u] = s
    THEN Decoded(CHOOSE u \in Uuids : UuidText[u] = s)
    ELSE DecodeErr("", "uuid")

\* Document::new: no name yet
DocumentNew(fields) == [name |-> <<"">>, fields |-> fields]
\* doc.name = format!("parent_path/{}", id): the segments of the path
WithName(doc, id) == [doc EXCEPT !.name = <<"parent_path", uuid_to_string(id)>>]

extract_id(doc) ==
    LET id == doc.name[Len(doc.name)]
    IN  IF parse_str(id).ok THEN parse_str(id) ELSE DecodeErr("id", "uuid")

\* DocumentField::extract_integer::<T>
field_extract_integer(df, T) ==
    IF df.tag = "IntegerValue"
    THEN IF parse(df.val, T).ok THEN Decoded(parse(df.val, T).val)
         ELSE DecodeErr("", T)
    ELSE DecodeErr("", "IntegerValue")

\* DocumentField::extract_double: an IntegerValue is read as an i32
field_extract_double(df) ==
    IF df.tag = "DoubleValue" THEN Decoded(df.val)
    ELSE IF df.tag = "IntegerValue"
    THEN IF parse(df.val, "i32").ok THEN Decoded(F64FromI32(parse(df.val, "i32").val))
         ELSE DecodeErr("", "f64")
    ELSE DecodeErr("", "DoubleValue")

\* DocumentField::extract_string, DocumentField::extract_timestamp
field_extract(df, tag) ==
    IF df.tag = tag THEN Decoded(df.val) ELSE DecodeErr("", tag)

\* Document::extract_double, extract_integer, extract_string and
\* extract_timestamp
extract_double(doc, field_name) ==
    IF field_name \in DOMAIN doc.fields
    THEN field_extract_double(doc.fields[field_name])
    ELSE DecodeErr(field_name, "")

extract_integer(doc, field_name, T) ==
    IF field_name \in DOMAIN doc.fields
    THEN field_extract_integer(doc.fields[field_name], T)
    ELSE DecodeErr(field_name, "")

extract_string(doc, field_name) ==
    IF field_name \in DOMAIN doc.fields
    THEN field_extract(doc.fields[field_name], "StringValue")
    ELSE DecodeErr(field_name, "")

extract_timestamp(doc, field_name) ==
    IF field_name \in DOMAIN doc.fields
    THEN field_extract(doc.fields[field_name], "TimestampValue")
    ELSE DecodeErr(field_name, "")

\* ------------------------------------------------------- StatsI and StatsF
Stats(physical, mental, tactical) ==
    [physical |-> physical, mental |-> mental, tactical |-> tactical]

\* impl Into<DocumentField> for StatsI / StatsF
StatsI_into(s) ==
    MapValue(Some([physical |-> IntegerValue(to_string(s.physical)),
                   mental |-> IntegerValue(to_string(s.mental)),
                   tactical |-> IntegerValue(to_string(s.tactical))]))

StatsF_into(s) ==
    MapValue(Some([physical |-> DoubleValue(s.physical),
                   mental |-> DoubleValue(s.mental),
                   tactical |-> DoubleValue(s.tactical)]))

\* impl TryFrom<&DocumentField> for StatsI
StatsI_try_from(value) ==
    IF value.tag # "MapValue" THEN DecodeErr("", "MapValue")
    ELSE IF IsNone(value.val) THEN Decoded(Stats(0, 0, 0))
    ELSE LET fields == Unwrap(value.val)
             one(k) == IF k \notin DOMAIN fields THEN DecodeErr(k, "")
                       ELSE field_extract_integer(fields[k], "i32")
             rs == <<one("physical"), one("mental"), one("tactical")>>
         IN  IF AllOk(rs) THEN Decoded(Stats(Value(rs[1]), Value(rs[2]), Value(rs[3])))
             ELSE FirstErr(rs)

\* impl TryFrom<&DocumentField> for StatsF: only a DoubleValue is accepted
StatsF_try_from(value) ==
    IF value.tag # "MapValue" THEN DecodeErr("", "MapValue")
    ELSE IF IsNone(value.val) THEN Decoded(Stats(F64(0, 0), F64(0, 0), F64(0, 0)))
    ELSE LET fields == Unwrap(value.val)
             one(k) == IF k \notin DOMAIN fields THEN DecodeErr(k, "")
                       ELSE field_extract(fields[k], "DoubleValue")
             rs == <<one("physical"), one("mental"), one("tactical")>>
         IN  IF AllOk(rs) THEN Decoded(Stats(Value(rs[1]), Value(rs[2]), Value(rs[3])))
             ELSE FirstErr(rs)

\* value.fields.get(name).ok_or_else(..)?.try_into()?
stats_field(doc, field_name) ==
    IF field_name \in DOMAIN doc.fields
    THEN IF field_name = "stat_base" THEN StatsI_try_from(doc.fields[field_name])
         ELSE StatsF_try_from(doc.fields[field_name])
    ELSE DecodeErr(field_name, "")

\* ---------------------------------------------------------------- entities
Entities == {"User", "Card", "Character", "Job", "JobPrototype"}

\* impl Into<Document> for User
user_into_document(x) ==
    DocumentNew(
        IF IsSome(x.staged_card)
        THEN [currency |-> IntegerValue(to_string(x.currency)),
              daily_last_claimed |-> TimestampValue(x.daily_last_claimed),
              staged_card |-> StringValue(uuid_to_string(Unwrap(x.staged_card)))]
        ELSE [currency |-> IntegerValue(to_string(x.currency)),
              daily_last_claimed |-> TimestampValue(x.daily_last_claimed)])

\* impl TryFrom<Document> for User: one message for every failure
user_try_from(doc) ==
    LET f == doc.fields
        staged == "staged_card" \in DOMAIN f /\ f["staged_card"].tag = "StringValue"
    IN  IF ~("currency" \in DOMAIN f /\ f["currency"].tag = "IntegerValue")
        THEN DecodeErr("", "")
        ELSE IF ~parse(f["currency"].val, "u32").ok THEN DecodeErr("", "")
        ELSE IF ~("daily_last_claimed" \in DOMAIN f
                  /\ f["daily_last_claimed"].tag = "TimestampValue")
        THEN DecodeErr("", "")
        ELSE IF staged /\ ~parse_str(f["staged_card"].val).ok THEN DecodePanic
        ELSE IF ~parse_str(doc.name[Len(doc.name)]).ok THEN DecodePanic
        ELSE Decoded([id |-> Value(parse_str(doc.name[Len(doc.name)])),
                      currency |-> parse(f["currency"].val, "u32").val,
                      daily_last_claimed |-> f["daily_last_claimed"].val,
                      staged_card |-> IF staged
                                      THEN Some(Value(parse_str(f["staged_card"].val)))
                                      ELSE None])

\* impl Into<Document> for Card
card_into_document(x) ==
    DocumentNew([name |-> StringValue(x.name),
                 description |-> StringValue(x.description),
                 image_uri |-> StringValue(x.image_uri),
                 stat_base |-> StatsI_into(x.stat_base),
                 stat_multiplier |-> StatsF_into(x.stat_multiplier)])

\* impl TryFrom<Document> for Card
card_try_from(doc) ==
    LET rs == <<extract_id(doc), extract_string(doc, "name"),
                extract_string(doc, "description"), extract_string(doc, "image_uri"),
                stats_field(doc, "stat_base"), stats_field(doc, "stat_multiplier")>>
    IN  IF AllOk(rs)
        THEN Decoded([id |-> Value(rs[1]), name |-> Value(rs[2]),
                      description |-> Value(rs[3]), image_uri |-> Value(rs[4]),
                      stat_base |-> Value(rs[5]), stat_multiplier |-> Value(rs[6])])
        ELSE FirstErr(rs)

\* impl Into<Document> for Character
character_into_document(x) ==
    DocumentNew([prototype_id |-> StringValue(uuid_to_string(x.prototype_id)),
                 level |-> IntegerValue(to_string(x.level)),
                 experience |-> IntegerValue(to_string(x.experience))])

\* impl TryFrom<Document> for Character
character_try_from(doc) ==
    LET s == extract_string(doc, "prototype_id")
        rs == <<extract_id(doc),
                IF ~s.ok THEN s
                ELSE IF parse_str(Value(s)).ok THEN parse_str(Value(s))
                ELSE DecodeErr("prototype_id", "uuid"),
                extract_integer(doc, "level", "u32"),
                extract_integer(doc, "experience", "u32")>>
    IN  IF AllOk(rs)
        THEN Decoded([id |-> Value(rs[1]), prototype_id |-> Value(rs[2]),
                      level |-> Value(rs[3]), experience |-> Value(rs[4])])
        ELSE FirstErr(rs)

\* impl Into<Document> for Job
job_into_document(x) ==
    DocumentNew([name |-> StringValue(x.name),
                 description |-> StringValue(x.description),
                 recommended_stats |-> StatsF_into(x.recommended_stats),
                 completion_time |-> TimestampValue(x.completion_time),
                 user_id |-> StringValue(uuid_to_string(x.user_id)),
                 character_ids |->
                     ArrayValue(Some([i \in 1..Len(x.character_ids) |->
                         StringValue(uuid_to_string(x.character_ids[i]))]))])

\* impl TryFrom<Document> for Job
job_try_from(doc) ==
    LET u == extract_string(doc, "user_id")
        a == doc.fields["character_ids"]
        rs == <<extract_id(doc), extract_string(doc, "name"),
                extract_string(doc, "description"),
                stats_field(doc, "recommended_stats"),
                extract_timestamp(doc, "completion_time"),
                IF ~u.ok THEN u
                ELSE IF parse_str(Value(u)).ok THEN parse_str(Value(u))
                ELSE DecodePanic,
                IF "character_ids" \notin DOMAIN doc.fields
                THEN DecodeErr("character_ids", "")
                ELSE IF a.tag # "ArrayValue" THEN DecodeErr("", "ArrayValue")
                ELSE IF IsNone(a.val) THEN DecodePanic
                ELSE IF \E i \in 1..Len(Unwrap(a.val)) :
                           \/ Unwrap(a.val)[i].tag # "StringValue"
                           \/ ~parse_str(Unwrap(a.val)[i].val).ok
                THEN DecodePanic
                ELSE Decoded([i \in 1..Len(Unwrap(a.val)) |->
                                 Value(parse_str(Unwrap(a.val)[i].val))])>>
    IN  IF AllOk(rs)
        THEN Decoded([id |-> Value(rs[1]), name |-> Value(rs[2]),
                      description |-> Value(rs[3]), recommended_stats |-> Value(rs[4]),
                      completion_time |-> Value(rs[5]), user_id |-> Value(rs[6]),
                      character_ids |-> Value(rs[7])])
        ELSE FirstErr(rs)

\* impl Into<Document> for JobPrototype
job_prototype_into_document(x) ==
    DocumentNew([name |-> StringValue(x.name),
                 description |-> StringValue(x.description),
                 recommended_stats |-> StatsF_into(x.recommended_stats),
                 duration_mins |-> IntegerValue(to_string(x.duration_mins))])

\* impl TryFrom<Document> for JobPrototype
job_prototype_try_from(doc) ==
    LET rs == <<extract_id(doc), extract_string(doc, "name"),
                extract_string(doc, "description"),
                stats_field(doc, "recommended_stats"),
                extract_integer(doc, "duration_mins", "u32")>>
    IN  IF AllOk(rs)
        THEN Decoded([id |-> Value(rs[1]), name |-> Value(rs[2]),
                      description |-> Value(rs[3]), recommended_stats |-> Value(rs[4]),
                      duration_mins |-> Value(rs[5])])
        ELSE FirstErr(rs)

\* "f64" stands for a document with one top-level double field, read with
\* Document::extract_double
into_document(entity, x) ==
    CASE entity = "User" -> user_into_document(x)
      [] entity = "Card" -> card_into_document(x)
      [] entity = "Character" -> character_into_document(x)
      [] entity = "Job" -> job_into_document(x)
      [] entity = "JobPrototype" -> job_prototype_into_document(x)
      [] entity = "f64" -> DocumentNew([value |-> DoubleValue(x.value)])

try_from(entity, doc) ==
    CASE entity = "User" -> user_try_from(doc)
      [] entity = "Card" -> card_try_from(doc)
      [] entity = "Character" -> character_try_from(doc)
      [] entity = "Job" -> job_try_from(doc)
      [] entity = "JobPrototype" -> job_prototype_try_from(doc)
      [] entity = "f64" ->
            LET rs == <<extract_id(doc), extract_double(doc, "value")>>
            IN  IF AllOk(rs) THEN Decoded([id |-> Value(rs[1]), value |-> Value(rs[2])])
                ELSE FirstErr(rs)

\* the values the checks draw from
U32Values == {0, 1, 100, 2147483647}
I32Values == {0 - 2147483647, 0 - 1, 0, 24}
F64Values == {F64(0, 0), F64(2, 0), F64(9, 0 - 1), F64(0 - 5, 0 - 1), F64(2, 1), F64(3, 9)}
Timestamps == {0, 1}
StatsIValues == {Stats(a, b, 0) : a \in I32Values, b \in {0 - 1, 19}}
StatsFValues == {Stats(a, b, a) : a \in F64Values, b \in {F64(2, 0), F64(9, 0 - 1)}}

ValuesOf(entity) ==
    CASE entity = "User" ->
            [id : Uuids, currency : U32Values, daily_last_claimed : Timestamps,
             staged_card : {None} \cup {Some(u) : u \in Uuids}]
      [] entity = "Card" ->
            [id : Uuids, name : {"", "test card"}, description : {"test description"},
             image_uri : {"https://localhost/test_uri.png"},
             stat_base : StatsIValues, stat_multiplier : StatsFValues]
      [] entity = "Character" ->
            [id : Uuids, prototype_id : Uuids, level : U32Values, experience : U32Values]
      [] entity = "Job" ->
            [id : Uuids, name : {"test job"}, description : {"test description"},
             recommended_stats : StatsFValues, completion_time : Timestamps,
             user_id : Uuids, character_ids : {<<>>, <<1>>, <<2, 1>>}]
      [] entity = "JobPrototype" ->
            [id : Uuids, name : {"test job"}, description : {"test description"},
             recommended_stats : StatsFValues, duration_mins : U32Values]
      [] entity = "f64" -> [id : Uuids, value : F64Values]

\* The server stores an integral double as an integer: it comes back as an
\* IntegerValue holding its decimal string (comment in extract_double).
RECURSIVE ServerEchoField(_)
ServerEchoField(df) ==
    IF df.tag = "DoubleValue" /\ IsIntegral(df.val) THEN IntegerValue(DecimalOf(df.val))
    ELSE IF df.tag = "MapValue" /\ IsSome(df.val)
    THEN MapValue(Some([k \in DOMAIN Unwrap(df.val) |-> ServerEchoField(Unwrap(df.val)[k])]))
    ELSE df

ServerEcho(doc) ==
    [doc EXCEPT !.fields = [k \in DOMAIN doc.fields |-> ServerEchoField(doc.fields[k])]]

\* the required fields of an entity's document, the inner fields of its stat
\* blocks ("" for the field itself), and the kind of value each must hold
Required(entity) ==
    CASE entity = "User" ->
            {<<"currency", "", "IntegerValue">>, <<"daily_last_claimed", "", "TimestampValue">>}
      [] entity = "Card" ->
            {<<"name", "", "StringValue">>, <<"image_uri", "", "StringValue">>,
             <<"stat_base", "", "MapValue">>, <<"stat_base", "mental", "IntegerValue">>,
             <<"stat_multiplier", "physical", "DoubleValue">>}
      [] entity = "Character" ->
            {<<"prototype_id", "", "StringValue">>, <<"level", "", "IntegerValue">>}
      [] entity = "Job" ->
            {<<"completion_time", "", "TimestampValue">>, <<"user_id", "", "StringValue">>,
             <<"character_ids", "", "ArrayValue">>,
             <<"recommended_stats", "tactical", "DoubleValue">>}
      [] entity = "JobPrototype" ->
            {<<"description", "", "StringValue">>, <<"duration_mins", "", "IntegerValue">>}
      [] entity = "f64" -> {<<"value", "", "DoubleValue">>}

\* a field of another kind than `kind`
OfOtherKind(kind) == IF kind = "StringValue" THEN NullValue ELSE StringValue("x")

Without(fields, k) == [j \in DOMAIN fields \ {k} |-> fields[j]]

\* the document with the field left out ("missing"), holding a value of
\* another kind ("wrong_tag"), or a stat block that came back without its
\* inner fields ("empty_map")
Damaged(doc, field, inner, kind, how) ==
    LET f == doc.fields
        m == Unwrap(f[field].val)
        put(df) == [doc EXCEPT !.fields = [f EXCEPT ![field] = df]]
    IN  IF inner = ""
        THEN CASE how = "missing" -> [doc EXCEPT !.fields = Without(f, field)]
               [] how = "wrong_tag" -> put(OfOtherKind(kind))
               [] how = "empty_map" -> put(MapValue(None))
        ELSE CASE how = "missing" -> put(MapValue(Some(Without(m, inner))))
               [] how = "wrong_tag" ->
                      put(MapValue(Some([m EXCEPT ![inner] = OfOtherKind(kind)])))
               [] how = "empty_map" -> put(MapValue(None))

NotDamaged == [field |-> "", inner |-> "", kind |-> "", how |-> "none"]
NoCodec == [stage |-> "idle", entity |-> "", x |-> <<>>, doc |-> DocumentNew(<<>>),
            echoed |-> FALSE, damage |-> NotDamaged, res |-> DecodePanic]

\* let mut doc: Document = x.into(); doc.name = format!("parent_path/{}", x.id)
Encode(entity, x) ==
    /\ codec.stage = "idle"
    /\ codec' = [NoCodec EXCEPT !.stage = "encoded", !.entity = entity, !.x = x,
                                !.doc = WithName(into_document(entity, x), x.id)]

\* the document is written to the store and read back
Echo ==
    /\ codec.stage = "encoded"
    /\ ~codec.echoed
    /\ codec.damage.how = "none"
    /\ codec' = [codec EXCEPT !.doc = ServerEcho(@), !.echoed = TRUE]

\* a document of the collection that does not have the shape of the entity
Damage(field, inner, kind, how) ==
    /\ codec.stage = "encoded"
    /\ ~codec.echoed
    /\ codec.damage.how = "none"
    /\ <<field, inner, kind>> \in Required(codec.entity)
    /\ how = "empty_map" => kind = "MapValue"
    /\ codec' = [codec EXCEPT !.doc = Damaged(@, field, inner, kind, how),
                              !.damage = [field |-> field, inner |-> inner,
                                          kind |-> kind, how |-> how]]

\* let y: T = doc.try_into()
Decode ==
    /\ codec.stage = "encoded"
    /\ codec' = [codec EXCEPT !.stage = "decoded", !.res = try_from(codec.entity, codec.doc)]

\* ------------------------------------------------ Compendium::upsert_card
CardIds == 1..MaxCard
CardNames == {"old", "new"}
CompendiumCards == [id : CardIds, name : CardNames]
NoUpsert == [card |-> None, before |-> None, res |-> Ok(None)]

\* new_cards.insert(id, card)
InsertCard(cards, card) == [cards EXCEPT ![card.id] = Some(card)]

\* let mut card_to_modify = new_cards.get(&id).unwrap();
\* std::mem::replace(&mut card_to_modify, &card);
\* the local reference is replaced, the collection is left as it was
ReplaceCard(cards, card) == cards

\* Compendium::upsert_card(card); outcome is that of fs::write
upsert_card(card, outcome) ==
    LET cards_mut == compendium.current
        old_card == cards_mut[card.id]
        new_cards == IF IsNone(old_card) THEN InsertCard(cards_mut, card)
                     ELSE ReplaceCard(cards_mut, card)
    IN  IF outcome = "error"
        THEN compendium' = [compendium EXCEPT
                 !.last = [card |-> Some(card), before |-> old_card, res |-> Err("Io", "")]]
        ELSE compendium' = [current |-> new_cards, file |-> new_cards,
                 last |-> [card |-> Some(card), before |-> old_card, res |-> Ok(old_card)]]

\* Compendium::from_file: the cards in memory are those of the file
from_file ==
    compendium' = [current |-> compendium.file, file |-> compendium.file, last |-> NoUpsert]

\* ---------------------------------------------------- Api::complete_job
JobIds == 1..MaxJob
Instants == 0..MaxNow
NoComplete == [job |-> 0, at |-> 0, completion_time |-> None, res |-> Ok(None),
               changed |-> FALSE]

\* Utc::now() advances
Clock ==
    /\ jobs.now < MaxNow
    /\ jobs' = [jobs EXCEPT !.now = @ + 1]

\* Job::new(prototype, ..): completion_time = Utc::now() + duration_mins
JobNew(j, duration_mins) ==
    /\ IsNone(jobs.job[j])
    /\ jobs' = [jobs EXCEPT !.job[j] = Some(jobs.now + duration_mins)]

\* Job::can_complete
can_complete(completion_time, now) == completion_time > now

\* Api::complete_job(user_id, job_id); outcome "error" is a request of the
\* transaction failing, after which nothing has been written (the writes are
\* buffered until the commit)
complete_job(j, outcome) ==
    LET job == jobs.job[j]
        done(res, changed) == [job |-> j, at |-> jobs.now, completion_time |-> job,
                               res |-> res, changed |-> changed]
    IN  IF outcome = "error"
        THEN jobs' = [jobs EXCEPT !.last = done(Err("StorageGeneric", ""), FALSE)]
        ELSE IF IsNone(job)
        THEN jobs' = [jobs EXCEPT !.last = done(Err("JobNotFound", ""), FALSE)]
        ELSE IF can_complete(Unwrap(job), jobs.now)
        THEN \E currency_gain \in 0..1 :
                jobs' = [jobs EXCEPT !.currency = (@ + currency_gain) % 2,
                                     !.job[j] = None,
                                     !.last = done(Ok(Some(currency_gain)), TRUE)]
        ELSE jobs' = [jobs EXCEPT !.last = done(Err("JobNotComplete", ""), FALSE)]

Epoch == -1
\* the date of User::new's daily_last_claimed

\* models::User
User(currency, daily_last_claimed, staged_card) ==
    [currency |-> currency, daily_last_claimed |-> daily_last_claimed,
     staged_card |-> staged_card]

\* ------------------------------------- the documents of one user's account
\* the documents the operations on jobs and on the staged card read and write:
\* the user, the cards of the compendium, the user's characters and jobs
UserDoc == <<"users", 0>>
CardDoc(id) == <<"cards", id>>
CharacterDoc(id) == <<"characters", id>>
JobDoc(id) == <<"jobs", id>>

\* Uuid::new_v4() of the n-th call of caller c: an id nothing else has
FreshId(c, n) == (c - 1) * MaxApiCalls + n
FreshIds == 1 .. MaxClient * MaxApiCalls
BoardDocs ==
    {UserDoc} \cup {CardDoc(i) : i \in CardIds}
              \cup {CharacterDoc(i) : i \in {0} \cup FreshIds}
              \cup {JobDoc(i) : i \in {0} \cup FreshIds}

\* models::Character and Character::new
Character(id, prototype_id, level, experience) ==
    [id |-> id, prototype_id |-> prototype_id, level |-> level,
     experience |-> experience]
CharacterNew(id, prototype_id) == Character(id, prototype_id, 1, 0)

\* models::Job
Job(id, character_ids, completion_time) ==
    [id |-> id, character_ids |-> character_ids, completion_time |-> completion_time]

\* a caller: the operation, where it is, its retries, its transaction (the
\* documents read through it, whether one of them was written since, the
\* buffered writes) and its locals; late: the job was gone when it called
NoRun == [op |-> "none", pc |-> "idle", arg |-> 0, n |-> 0, retries |-> 0,
          ret |-> Ok(None), active |-> FALSE, reads |-> {}, stale |-> FALSE,
          writes |-> {}, user |-> None, job |-> None, report |-> None,
          late |-> FALSE]

\* applied: the commits the store applied; start: the documents at the start
Board(documents, now) ==
    [docs |-> documents, now |-> now, run |-> [c \in 1 .. MaxClient |-> NoRun],
     applied |-> <<>>, start |-> documents]
NoBoard == Board([d \in BoardDocs |-> None], 0)

\* ------------------------------------------------------------ UserRegistry
UserIds == 1 .. MaxUser
RegistryUsers == {User(currency, Epoch, FALSE) : currency \in 0 .. MaxCurrency}
NoRegistryOp == [op |-> "none", id |-> 0, res |-> "", before |-> None,
                 written |-> FALSE]
\* current: the DashMap; storage: what the StorageDriver holds
NoRegistry == [current |-> [id \in UserIds |-> None],
               storage |-> [id \in UserIds |-> None], last |-> NoRegistryOp]

\* the state before any of the model-level operations ran
InitModelsWith(b, g) ==
    /\ board = b
    /\ registry = g
    /\ codec = NoCodec
    /\ compendium = [current |-> [i \in CardIds |-> None], file |-> [i \in CardIds |-> None],
                     last |-> NoUpsert]
    /\ jobs = [now |-> 0, job |-> [j \in JobIds |-> None], currency |-> 0, last |-> NoComplete]

InitModels == InitModelsWith(NoBoard, NoRegistry)

\* ------------------------------------------------------------------- Init
InitStore ==
    /\ docs \in {[n \in Names |-> IF n = 1 THEN Some(d) ELSE None] :
                    d \in {Document(0), Malformed(0)}}
    /\ ver = [n \in Names |-> 0]
    /\ remote = [t \in Txns |-> RemoteNone]

InitClient ==
    /\ transactions = [t \in Txns |-> NoHandle]
    /\ pending = [t \in Txns |-> [n \in Names |-> 0]]
    /\ drop_queue = <<>>
    /\ drop_worker = "running"
    /\ abort_waiting = {}
    /\ listing = ListIdle(FALSE)
    /\ lastOp = NoOp
    /\ hist = [t \in Txns |-> NoHist]

\* no engine operation runs
Clients == 1..MaxClient
Days == 0..MaxDay
InitialRetries == 2
\* let mut retries: usize = 2
NoCall == [op |-> "none", pc |-> "idle", retries |-> 0, tx |-> NoTx, user |-> None,
           ret |-> Ok(None), att |-> 0, log |-> <<>>, day |-> 0, late |-> FALSE]

InitEngineVars ==
    /\ calls = [c \in Clients |-> NoCall]
    /\ today = 0
    /\ touched = 0
    /\ ledger = [start |-> 0, claims |-> [d \in Days |-> 0], draws |-> 0]

Init == InitStore /\ InitClient /\ InitEngineVars /\ InitToken({3600}) /\ InitModels

\* ------------------------------------------- FirestoreClient::begin_transaction
BeginTransactionAs(transaction_type, T, outcome) ==
    \E t \in T :
        /\ transactions[t].state = "none"
        /\ \A u \in T : u < t => transactions[u].state # "none"
        /\ IF outcome = 200
           THEN /\ remote' = [remote EXCEPT ![t] = RemoteBeginAs(transaction_type)]
                /\ transactions' = [transactions EXCEPT ![t] = TransactionNew]
                /\ lastOp' = Op("begin", t, 0, FALSE, <<"beginTransaction">>, 200, Ok(None))
           ELSE /\ UNCHANGED <<remote, transactions>>
                /\ lastOp' = Op("begin", NoTx, 0, FALSE, <<"beginTransaction">>, outcome,
                                IF outcome = Transport THEN Err("Hyper", "")
                                ELSE Err("Other", "Non-success status code"))
        /\ UNCHANGED <<listing, docs, ver, pending, dropVars, hist>>

\* the engine's read-write operations: begin_transaction(TransactionType::ReadWrite)
BeginTransaction(T, outcome) == BeginTransactionAs("ReadWrite", T, outcome)

\* ------------------------------------------------------- Firestore::get
\* the store serving GET name?transaction=param: the status and the document
ServeStatus(param, n) ==
    IF param # NoTx /\ remote[param].state # "active" THEN 400
    ELSE IF IsNone(StoreRead(param, n)) THEN 404
    ELSE 200

\* a match in which NOT_FOUND falls into the arm of the other statuses
get_result_not_found_err(status, doc) ==
    IF status = 200
    THEN IF try_into(Unwrap(doc)).ok THEN try_into(Unwrap(doc))
         ELSE Err("Other", "Failed to convert from Document to requested type.")
    ELSE IF status = Transport THEN Err("Hyper", "")
    ELSE Err("Other", "Non-success status code")

\* the match on the response status, after the document was cached
get_result(status, doc) ==
    IF status = 200
    THEN IF try_into(Unwrap(doc)).ok THEN try_into(Unwrap(doc))
         ELSE Err("Other", "Failed to convert from Document to requested type.")
    ELSE IF status = 404 THEN Ok(None)
    ELSE IF status = Transport THEN Err("Hyper", "")
    ELSE Err("Other", "Non-success status code")

\* the transaction read cache answers: the entry is there and converts
CacheHit(t, n) ==
    /\ IsSome(transactions[t].read_cache[n])
    /\ try_into(Unwrap(transactions[t].read_cache[n])).ok

NoteSome(h, n, res) ==
    IF res.ok /\ IsSome(res.val) /\ IsNone(h.firstSome[n])
    THEN [h EXCEPT !.firstSome[n] = res.val] ELSE h

NoteNetOk(h, n, res) ==
    IF res.ok /\ h.netOk[n] < 2 THEN [h EXCEPT !.netOk[n] = @ + 1] ELSE h

\* get(name, Some(t)): the cache check, and on a miss the request is sent
GetStart(t, n) ==
    /\ t \in Held
    /\ t \notin abort_waiting
    /\ IF CacheHit(t, n)
       THEN /\ lastOp' = OpGet(t, n, <<>>, 0,
                              try_into(Unwrap(transactions[t].read_cache[n])),
                              hist[t].firstSome[n])
            /\ hist' = [hist EXCEPT ![t] =
                            NoteSome(@, n, try_into(Unwrap(transactions[t].read_cache[n])))]
            /\ UNCHANGED pending
       ELSE /\ pending[t][n] < MaxPending
            /\ pending' = [pending EXCEPT ![t][n] = @ + 1]
            /\ hist' = [hist EXCEPT ![t].raced[n] = @ \/ pending[t][n] > 0]
            /\ lastOp' = Op("get_sent", t, n, FALSE, <<"GET">>, 0, Ok(None))
    /\ UNCHANGED <<listing, storeVars, transactions, dropVars>>

\* the response arrives: cache_read on 200, then the conversion
GetFinish(t, n, outcome) ==
    /\ pending[t][n] > 0
    /\ pending' = [pending EXCEPT ![t][n] = @ - 1]
    /\ LET param == GetTransactionParam(t)
           status == IF outcome = "ok" THEN ServeStatus(param, n)
                     ELSE IF outcome = "error" THEN 500 ELSE Transport
           doc == StoreRead(param, n)
           res == get_result(status, doc)
       IN  /\ remote' = IF outcome = "ok" /\ param # NoTx /\ status \in {200, 404}
                         THEN RemoteAfterRead(param, n) ELSE remote
           /\ transactions' =
                 IF status = 200
                 THEN [transactions EXCEPT ![t].read_cache =
                          cache_read(@, n, Unwrap(doc))]
                 ELSE transactions
           /\ lastOp' = OpGet(t, n, <<"GET">>, status, res, hist[t].firstSome[n])
           /\ hist' = [hist EXCEPT ![t] = NoteNetOk(NoteSome(@, n, res), n, res)]
    /\ UNCHANGED <<listing, docs, ver, dropVars>>

\* get(name, None)
GetDirect(n, outcome) ==
    /\ LET status == IF outcome = "ok" THEN ServeStatus(NoTx, n)
                     ELSE IF outcome = "error" THEN 500 ELSE Transport
       IN  lastOp' = OpGet(NoTx, n, <<"GET">>, status, get_result(status, docs[n]), None)
    /\ UNCHANGED <<listing, storeVars, transactions, pending, dropVars, hist>>

\* ------------------------------------------------- FirestoreClient::batch_get
\* the names a transaction's read cache answers (all of them go to the store
\* when there is no transaction)
BatchCached(t, names) ==
    IF t = NoTx THEN {}
    ELSE {n \in names : IsSome(transactions[t].read_cache[n])}

\* the store serving :batchGet of the documents `names`: the status, and one
\* found or missing entry for every requested document
BatchServeStatus(param) ==
    IF param # NoTx /\ remote[param].state # "active" THEN 400 ELSE 200
BatchServe(param, names) == [n \in names |-> StoreRead(param, n)]
RemoteAfterBatch(t, names) ==
    [remote EXCEPT ![t].reads =
        [n \in Names |-> IF n \in names /\ @[n] = NotRead THEN ver[n] ELSE @[n]]]

\* Firestore::batch_get on 200: ret holds the cached documents, then every
\* entry of the response is inserted
batch_ret(t, names, response) ==
    [n \in BatchCached(t, names) \cup DOMAIN response |->
        IF n \in DOMAIN response THEN response[n] ELSE transactions[t].read_cache[n]]

\* FirestoreClient::batch_get: doc_map.remove(&name).unwrap() for every id,
\* and "For now treat conversion error as missing doc"
batch_convert(ids, doc_map) ==
    IF \E id \in ids : id \notin DOMAIN doc_map
    THEN Err("Panic", "unwrap on None")
    ELSE Ok([id \in ids |->
                IF IsSome(doc_map[id]) /\ try_into(Unwrap(doc_map[id])).ok
                THEN try_into(Unwrap(doc_map[id])).val
                ELSE None])

\* a batch_get that puts what it fetched into the read cache, as get does
BatchGetCaching(ids, t, outcome) ==
    /\ t # NoTx => (t \in Held /\ t \notin abort_waiting)
    /\ LET param == IF t = NoTx THEN NoTx ELSE GetTransactionParam(t)
           asked == ids \ BatchCached(t, ids)
           status == IF outcome = "ok" THEN BatchServeStatus(param)
                     ELSE IF outcome = "error" THEN 500 ELSE Transport
           res == IF status = 200
                  THEN batch_convert(ids, batch_ret(t, ids, BatchServe(param, asked)))
                  ELSE IF status = Transport THEN Err("Hyper", "")
                  ELSE Err("Other", "Non-success status code")
       IN  /\ remote' = IF outcome = "ok" /\ param # NoTx /\ status = 200
                         THEN RemoteAfterBatch(param, asked) ELSE remote
           /\ transactions' =
                 IF t # NoTx /\ status = 200
                 THEN [transactions EXCEPT ![t].read_cache =
                          [n \in Names |->
                              IF n \in asked /\ IsSome(BatchServe(param, asked)[n])
                              THEN BatchServe(param, asked)[n] ELSE @[n]]]
                 ELSE transactions
           /\ lastOp' = [Op("batch_get", t, ids, FALSE, <<"batchGet">>, status, res)
                            EXCEPT !.prior = asked]
    /\ UNCHANGED <<listing, docs, ver, pending, dropVars, hist>>

\* batch_get(ids, transaction): t = NoTx is the call without transaction
BatchGet(ids, t, outcome) ==
    /\ t # NoTx => (t \in Held /\ t \notin abort_waiting)
    /\ LET param == IF t = NoTx THEN NoTx ELSE GetTransactionParam(t)
           asked == ids \ BatchCached(t, ids)
           status == IF outcome = "ok" THEN BatchServeStatus(param)
                     ELSE IF outcome = "error" THEN 500 ELSE Transport
           res == IF status = 200
                  THEN batch_convert(ids, batch_ret(t, ids, BatchServe(param, asked)))
                  ELSE IF status = Transport THEN Err("Hyper", "")
                  ELSE Err("Other", "Non-success status code")
       IN  /\ remote' = IF outcome = "ok" /\ param # NoTx /\ status = 200
                         THEN RemoteAfterBatch(param, asked) ELSE remote
           /\ lastOp' = [Op("batch_get", t, ids, FALSE, <<"batchGet">>, status, res)
                            EXCEPT !.prior = asked]
    /\ UNCHANGED <<listing, docs, ver, transactions, pending, dropVars, hist>>

\* ---------------------------------------- FirestoreClient::upsert and delete
Outcomes == {"ok", "error", "lost_request", "lost_response"}
\* the store served the request (whether or not the response came back)
Served(outcome) == outcome \in {"ok", "lost_response"}
\* the status the caller sees
Seen(outcome, status) ==
    IF outcome = "ok" THEN status ELSE IF outcome = "error" THEN 500 ELSE Transport

\* the result of patch, delete: the match on the response status
direct_result(status) ==
    IF status = 200 THEN Ok(None)
    ELSE IF status = Transport THEN Err("Hyper", "")
    ELSE Err("Other", "Non-success status code")

\* the write that upsert / delete hands to the transaction
BufferedWrite(kind, n, v) ==
    IF kind = "upsert" THEN WriteUpdate(n, Document(v)) ELSE WriteDelete(n)

\* upsert(id, value, Some(t)) and delete(id, Some(t)): append_write only
WriteInTx(kind, t, n, v) ==
    /\ t \in Held
    /\ t \notin abort_waiting
    /\ IsOpen(t) => Len(Unwrap(transactions[t].writes)) < MaxWrites
    /\ LET r == append_write(transactions[t].writes, BufferedWrite(kind, n, v))
       IN  /\ transactions' = [transactions EXCEPT ![t].writes = r.writes]
           /\ lastOp' = Op(kind, t, n, IsOpen(t), <<>>, 0, TransactionErrorInto(r.res))
           /\ hist' = IF IsOpen(t)
                      THEN [hist EXCEPT ![t].buffered[n] =
                               Some(BufferedWrite(kind, n, v).doc)]
                      ELSE hist
    /\ UNCHANGED <<listing, storeVars, pending, dropVars>>

\* upsert(id, value, None) -> Firestore::patch; delete(id, None) -> Firestore::delete
WriteDirect(kind, n, v, outcome) ==
    /\ IF Served(outcome)
       THEN /\ docs' = [docs EXCEPT ![n] = BufferedWrite(kind, n, v).doc]
            /\ ver' = [ver EXCEPT ![n] = @ + 1]
       ELSE UNCHANGED <<docs, ver>>
    /\ lastOp' = Op(kind, NoTx, n, FALSE,
                    <<IF kind = "upsert" THEN "PATCH" ELSE "DELETE">>,
                    Seen(outcome, 200), direct_result(Seen(outcome, 200)))
    /\ listing' = IF Served(outcome) THEN Disturbed(listing) ELSE listing
    /\ UNCHANGED <<remote, transactions, pending, dropVars, hist>>

\* ------------------------------------------------ FirestoreClient::insert
\* the store serving POST collection?documentId=id: create-only
CreateStatus(n) == IF IsSome(docs[n]) THEN 409 ELSE 200
\* the status field of the error body the store sends with the status
CreateErrorCode(status) ==
    IF status = 409 THEN "ALREADY_EXISTS" ELSE "INTERNAL"

\* a match without the arm for ALREADY_EXISTS
create_result_generic(status, code) ==
    IF status = 200 THEN Ok(None)
    ELSE IF status = Transport THEN Err("Hyper", "")
    ELSE IF code = "ABORTED" THEN Err("Transaction", "Document contention, try again later")
    ELSE Err("Other", "Error creating document")

\* Firestore::create_document: the match on the status and on e.status
create_result(status, code) ==
    IF status = 200 THEN Ok(None)
    ELSE IF status = Transport THEN Err("Hyper", "")
    ELSE IF code = "ABORTED" THEN Err("Transaction", "Document contention, try again later")
    ELSE IF code = "ALREADY_EXISTS" THEN Err("Conflict", "Could not create document")
    ELSE Err("Other", "Error creating document")

\* insert(id, value)
Insert(n, v, outcome) ==
    /\ LET status == CreateStatus(n)
           seen == Seen(outcome, status)
       IN  /\ IF Served(outcome) /\ status = 200
              THEN /\ docs' = [docs EXCEPT ![n] = Some(Document(v))]
                   /\ ver' = [ver EXCEPT ![n] = @ + 1]
                   /\ listing' = Disturbed(listing)
              ELSE UNCHANGED <<docs, ver, listing>>
           /\ lastOp' = [Op("insert", NoTx, n, FALSE, <<"POST">>, seen,
                            create_result(seen, CreateErrorCode(seen)))
                            EXCEPT !.prior = Some(v)]
    /\ UNCHANGED <<remote, transactions, pending, dropVars, hist>>

\* ------------------------------------------------------ Transaction::commit
\* Transaction::try_into_writes: Option::take on the write buffer
try_into_writes(writes) ==
    IF IsSome(writes) THEN Ok(writes) ELSE Err("InvalidState", "")

\* the body of the :commit request
CommitRequest(writes, id) == [writes |-> writes, transaction |-> id]

\* what commit returns when try_into_writes failed
commit_invalid_state == Ok(None)

Commit(t, outcome) ==
    /\ t \in Held
    /\ t \notin abort_waiting
    /\ Quiet(t)
    /\ IF ~try_into_writes(transactions[t].writes).ok
       THEN /\ outcome = "ok"
            /\ lastOp' = Op("commit", t, 0, FALSE, <<>>, 0, commit_invalid_state)
            /\ UNCHANGED <<listing, storeVars, transactions, hist>>
       ELSE LET body == CommitRequest(Unwrap(transactions[t].writes), t)
                status == StoreCommitStatus(body.transaction, body.writes)
                seen == Seen(outcome, status)
                res == IF seen = Transport THEN Err("Hyper", "") ELSE commit_internal(seen)
            IN  /\ transactions' = [transactions EXCEPT ![t].writes = None]
                /\ IF Served(outcome) /\ status = 200
                   THEN /\ docs' = ApplyWrites(docs, body.writes)
                        /\ ver' = BumpVersions(ver, body.writes)
                        /\ remote' = [remote EXCEPT ![body.transaction] =
                                         RemoteEnd("committed")]
                   ELSE IF Served(outcome) /\ status = 409
                   THEN /\ remote' = [remote EXCEPT ![body.transaction] =
                                         RemoteEnd("aborted")]
                        /\ UNCHANGED <<docs, ver>>
                   ELSE UNCHANGED <<docs, ver, remote>>
                /\ listing' = IF Served(outcome) /\ status = 200
                              THEN Disturbed(listing) ELSE listing
                /\ lastOp' = Op("commit", body.transaction, 0, TRUE, <<"commit">>, seen, res)
                /\ hist' = [Finalize(hist, t, "commit") EXCEPT
                       ![t].applied = Served(outcome) /\ status = 200,
                       ![t].seen = seen,
                       ![t].wrote = {body.writes[i].name : i \in 1..Len(body.writes)}]
    /\ UNCHANGED <<pending, dropVars>>

\* ------------------------------------------- abort, Drop and the drop worker
ChannelClosed == drop_worker # "running"
ChannelFull == Len(drop_queue) >= DropQueueCap

\* mpsc::Sender::try_send / the completion of send
Enqueue(t, h) ==
    IF ChannelClosed \/ ChannelFull
    THEN /\ drop_queue' = drop_queue
         /\ hist' = h
    ELSE /\ drop_queue' = Append(drop_queue, t)
         /\ hist' = [h EXCEPT ![t].enqueued = @ + 1]

\* Transaction::abort: take the writes, then send((database, id)).await
Abort(t) ==
    /\ t \in Held
    /\ t \notin abort_waiting
    /\ Quiet(t)
    /\ IF ~IsOpen(t)
       THEN /\ lastOp' = Op("abort", t, 0, FALSE, <<>>, 0, Ok(None))
            /\ UNCHANGED <<transactions, dropVars, hist>>
       ELSE /\ transactions' = [transactions EXCEPT ![t].writes = None]
            /\ lastOp' = Op("abort", t, 0, TRUE, <<>>, 0, Ok(None))
            /\ IF ~ChannelClosed /\ ChannelFull
               THEN /\ abort_waiting' = abort_waiting \cup {t}
                    /\ hist' = Finalize(hist, t, "abort")
                    /\ UNCHANGED <<drop_queue, drop_worker>>
               ELSE /\ Enqueue(t, Finalize(hist, t, "abort"))
                    /\ UNCHANGED <<drop_worker, abort_waiting>>
    /\ UNCHANGED <<listing, storeVars, pending>>

\* an abort that waited for a slot goes on
AbortResume(t) ==
    /\ t \in abort_waiting
    /\ ChannelClosed \/ ~ChannelFull
    /\ abort_waiting' = abort_waiting \ {t}
    /\ Enqueue(t, hist)
    /\ lastOp' = Op("abort_sent", t, 0, FALSE, <<>>, 0, Ok(None))
    /\ UNCHANGED <<listing, storeVars, transactions, pending, drop_worker>>

\* a discard that sends like abort does: it waits for a slot when the channel
\* is full
DropSend(t) ==
    /\ t \in Held
    /\ t \notin abort_waiting
    /\ Quiet(t)
    /\ transactions' = [transactions EXCEPT ![t] = Dropped]
    /\ lastOp' = Op("drop", t, 0, IsOpen(t), <<>>, 0, Ok(None))
    /\ IF IsOpen(t) /\ ~ChannelClosed /\ ChannelFull
       THEN /\ abort_waiting' = abort_waiting \cup {t}
            /\ hist' = Forget(Finalize(hist, t, "drop"), t)
            /\ UNCHANGED drop_queue
       ELSE /\ IF IsOpen(t) THEN Enqueue(t, Forget(Finalize(hist, t, "drop"), t))
               ELSE /\ hist' = Forget(hist, t)
                    /\ UNCHANGED drop_queue
            /\ UNCHANGED abort_waiting
    /\ UNCHANGED <<listing, storeVars, pending, drop_worker>>

\* impl Drop for Transaction: the handle is discarded
Drop(t) ==
    /\ t \in Held
    /\ t \notin abort_waiting
    /\ Quiet(t)
    /\ transactions' = [transactions EXCEPT ![t] = Dropped]
    /\ lastOp' = Op("drop", t, 0, IsOpen(t), <<>>, 0, Ok(None))
    /\ IF IsOpen(t) THEN Enqueue(t, Forget(Finalize(hist, t, "drop"), t))
       ELSE /\ hist' = Forget(hist, t)
            /\ UNCHANGED drop_queue
    /\ UNCHANGED <<listing, storeVars, pending, drop_worker, abort_waiting>>

\* one turn of the drop worker's loop: recv, POST :rollback, log the status
DropWorker(outcome) ==
    /\ drop_worker = "running"
    /\ drop_queue # <<>>
    /\ LET t == Head(drop_queue)
           status == IF remote[t].state = "active" THEN 200 ELSE 400
       IN  IF outcome \in {"lost_request", "lost_response"}
           THEN \* client_clone.request(req).await.unwrap() panics
                /\ drop_worker' = "panicked"
                /\ drop_queue' = <<>>
                /\ remote' = IF outcome = "lost_response" /\ status = 200
                             THEN [remote EXCEPT ![t] = RemoteEnd("rolledback")] ELSE remote
                /\ lastOp' = Op("rollback", t, 0, FALSE, <<"rollback">>, Transport,
                                Err("Hyper", ""))
                /\ hist' = [hist EXCEPT ![t].rollbackSent = TRUE]
           ELSE /\ drop_queue' = Tail(drop_queue)
                /\ remote' = IF outcome = "ok" /\ status = 200
                             THEN [remote EXCEPT ![t] = RemoteEnd("rolledback")] ELSE remote
                /\ lastOp' = Op("rollback", t, 0, FALSE, <<"rollback">>,
                                Seen(outcome, status), Ok(None))
                /\ hist' = [hist EXCEPT ![t].rollbackSent = TRUE]
                /\ UNCHANGED drop_worker
    /\ UNCHANGED <<listing, docs, ver, transactions, pending, abort_waiting>>

\* drop_rx.recv() returns None and the loop ends: every sender is gone (the
\* _drop_tx of Firestore and the drop_tx of each Transaction) and the channel
\* is empty
DropWorkerStop ==
    /\ drop_worker = "running"
    /\ drop_queue = <<>>
    /\ manager = "discarded"
    /\ Held = {}
    /\ abort_waiting = {}
    /\ drop_worker' = "stopped"
    /\ lastOp' = Op("worker_stop", NoTx, 0, FALSE, <<>>, 0, Ok(None))
    /\ UNCHANGED <<listing, storeVars, transactions, pending, drop_queue,
                   abort_waiting, hist>>

\* ------------------------------------------------------- Firestore::list
\* the store's page after token: the documents, and the next page token
Existing(after) == {n \in Names : n > after /\ IsSome(docs[n])}

RECURSIVE FirstN(_, _)
FirstN(S, k) ==
    IF k = 0 \/ S = {} THEN <<>>
    ELSE LET m == CHOOSE x \in S : \A y \in S : x <= y
         IN  <<m>> \o FirstN(S \ {m}, k - 1)

ListPage(after) ==
    LET page == FirstN(Existing(after), PageSize)
    IN  [documents |-> page,
         next_page_token |->
             IF Cardinality(Existing(after)) > PageSize
             THEN Some(page[Len(page)]) ELSE None]

\* the loop over docs of one page: push what converts, log what does not
RECURSIVE push_converted(_, _)
push_converted(ret, page) ==
    IF page = <<>> THEN ret
    ELSE push_converted(
            IF try_into(Unwrap(docs[Head(page)])).ok
            THEN Append(ret, [name |-> Head(page), v |-> Unwrap(docs[Head(page)]).v])
            ELSE ret,
            Tail(page))

\* list(): the first request
ListStart ==
    /\ ~listing.active
    /\ listing' = [active |-> TRUE, token |-> None, ret |-> <<>>, dirty |-> FALSE]
    /\ lastOp' = Op("list_start", NoTx, 0, FALSE, <<>>, 0, Ok(None))
    /\ UNCHANGED <<storeVars, transactions, pending, dropVars, hist>>

\* one turn of the loop: GET the page after next_page_token
ListStep(outcome) ==
    /\ listing.active
    /\ IF outcome = "ok"
       THEN LET resp == ListPage(IF IsSome(listing.token) THEN Unwrap(listing.token) ELSE 0)
                ret == push_converted(listing.ret, resp.documents)
            IN  IF IsNone(resp.next_page_token)
                THEN /\ listing' = ListIdle(listing.dirty)
                     /\ lastOp' = Op("list", NoTx, 0, FALSE, <<"GET">>, 200, Ok(ret))
                ELSE /\ listing' = [listing EXCEPT !.token = resp.next_page_token,
                                                   !.ret = ret]
                     /\ lastOp' = Op("list_page", NoTx, 0, FALSE, <<"GET">>, 200, Ok(None))
       ELSE /\ listing' = ListIdle(listing.dirty)
            /\ lastOp' = Op("list", NoTx, 0, FALSE, <<"GET">>,
                            Seen(outcome, 200), direct_result(Seen(outcome, 200)))
    /\ UNCHANGED <<storeVars, transactions, pending, dropVars, hist>>

\* ------------------------------------------------------------- the engine
DAILY_CURRENCY_REWARD == 2
DRAW_COST == 1
UserName == 1
PrototypeName == 2
\* the id of the user the callers claim and draw for

\* the `?` on a storage::Result inside an engine operation
Try(res) == IF res.ok THEN res ELSE Err(ErrorFrom(res.err), "")

\* variants of the retry decision: one more retry; every error retried
RetryDecisionEager(ret, retries) ==
    IF ~ret.ok /\ retries >= 0 /\ classify(ret.err) = "InternalRetryable"
    THEN "retry" ELSE "break"

RetryDecisionAll(ret, retries) ==
    IF ~ret.ok /\ retries > 0 THEN "retry" ELSE "break"

\* match ret { Err(ref e) if retries > 0 => if InternalRetryable .. , _ => break }
RetryDecision(ret, retries) ==
    IF ~ret.ok /\ retries > 0 /\ classify(ret.err) = "InternalRetryable"
    THEN "retry" ELSE "break"

\* a variant of the claim precondition that is always met
ClaimDueAlways(user, now) == TRUE

\* user.daily_last_claimed.date() < Utc::now().date()
ClaimDue(user, now) == user.daily_last_claimed < now

\* the reward of today was applied to the user document already
ClaimedToday ==
    /\ IsSome(docs[UserName])
    /\ Unwrap(docs[UserName]).v.daily_last_claimed = today

\* a caller enters claim_user_daily_reward or draw_card
Call(c, op) ==
    /\ calls[c].pc = "idle"
    /\ calls' = [calls EXCEPT ![c] =
                    [NoCall EXCEPT !.op = op, !.pc = "begin", !.retries = InitialRetries,
                                   !.att = 1, !.day = today, !.late = ClaimedToday]]
    /\ UNCHANGED <<storeVars, transactions, pending, dropVars, listing, lastOp, hist,
                   today, touched, ledger>>

\* get_character reads in a ReadOnly transaction, the others in a ReadWrite one
TransactionTypeOf(op) == IF op = "get_character" THEN "ReadOnly" ELSE "ReadWrite"

\* begin_transaction(TransactionType::..).await?
EngBegin(c, outcome) ==
    /\ calls[c].pc = "begin"
    /\ BeginTransactionAs(TransactionTypeOf(calls[c].op), Txns, outcome)
    /\ calls' = [calls EXCEPT ![c] =
                    IF lastOp'.res.ok
                    THEN [@ EXCEPT !.pc = "get", !.tx = lastOp'.tx]
                    ELSE [@ EXCEPT !.pc = "match", !.ret = Try(lastOp'.res)]]
    /\ UNCHANGED <<today, touched, ledger>>

\* what the operation does with the user it read, up to its next await
AfterGet(call, res) ==
    IF ~res.ok THEN [call EXCEPT !.pc = "unwind", !.ret = Try(res)]
    ELSE IF call.op = "get_character"
    THEN IF IsNone(res.val) THEN [call EXCEPT !.pc = "unwind", !.ret = Ok(None)]
         ELSE [call EXCEPT !.pc = "prototype"]
    ELSE IF IsNone(res.val)
    THEN [call EXCEPT !.pc = "unwind", !.ret = Err("UserNotFound", "")]
    ELSE LET user == Unwrap(res.val)
         IN  IF call.op = "claim"
             THEN IF ClaimDue(user, today)
                  THEN [call EXCEPT !.pc = "upsert",
                           !.user = Some(User(user.currency + DAILY_CURRENCY_REWARD,
                                              today, user.staged_card))]
                  ELSE [call EXCEPT !.pc = "unwind",
                                    !.ret = Err("DailyAlreadyClaimed", "")]
             ELSE IF user.currency < DRAW_COST
                  THEN [call EXCEPT !.pc = "unwind", !.ret = Err("InsufficientFunds", "")]
                  ELSE IF user.staged_card
                  THEN [call EXCEPT !.pc = "unwind", !.ret = Err("DrawStagePopulated", "")]
                  ELSE [call EXCEPT !.pc = "card",
                           !.user = Some(User(user.currency - DRAW_COST,
                                              user.daily_last_claimed, FALSE))]

\* users.get::<User>(user_id, Some(&t)): the request goes out
EngGet(c) ==
    /\ calls[c].pc = "get"
    /\ GetStart(calls[c].tx, UserName)
    /\ calls' = [calls EXCEPT ![c] =
                    IF lastOp'.op = "get" THEN AfterGet(@, lastOp'.res)
                    ELSE [@ EXCEPT !.pc = "get_wait"]]
    /\ UNCHANGED <<today, touched, ledger>>

\* .await?: the response
EngGetWait(c, outcome) ==
    /\ calls[c].pc = "get_wait"
    /\ GetFinish(calls[c].tx, UserName, outcome)
    /\ calls' = [calls EXCEPT ![c] = AfterGet(@, lastOp'.res)]
    /\ UNCHANGED <<today, touched, ledger>>

\* get_character, after the prototype was read: Some(CharacterEx) or Other
AfterPrototype(call, res) ==
    IF ~res.ok THEN [call EXCEPT !.pc = "unwind", !.ret = Try(res)]
    ELSE IF IsNone(res.val) THEN [call EXCEPT !.pc = "unwind", !.ret = Err("Other", "")]
    ELSE [call EXCEPT !.pc = "unwind", !.ret = Ok(None)]

\* cards.get::<Card>(&character.prototype_id, Some(&t)): the request goes out
EngPrototype(c) ==
    /\ calls[c].pc = "prototype"
    /\ GetStart(calls[c].tx, PrototypeName)
    /\ calls' = [calls EXCEPT ![c] =
                    IF lastOp'.op = "get" THEN AfterPrototype(@, lastOp'.res)
                    ELSE [@ EXCEPT !.pc = "prototype_wait"]]
    /\ UNCHANGED <<today, touched, ledger>>

\* .await?: the response
EngPrototypeWait(c, outcome) ==
    /\ calls[c].pc = "prototype_wait"
    /\ GetFinish(calls[c].tx, PrototypeName, outcome)
    /\ calls' = [calls EXCEPT ![c] = AfterPrototype(@, lastOp'.res)]
    /\ UNCHANGED <<today, touched, ledger>>

\* an attempt whose handle outlives the async block
EngUnwindKeep(c) ==
    /\ calls[c].pc = "unwind"
    /\ calls' = [calls EXCEPT ![c].pc = "match"]
    /\ UNCHANGED <<storeVars, transactions, pending, dropVars, listing, lastOp, hist,
                   today, touched, ledger>>

\* get_random_card().await?: a card, an empty compendium or a storage error
EngCard(c, drawn) ==
    /\ calls[c].pc = "card"
    /\ calls' = [calls EXCEPT ![c] =
                    IF drawn = "card"
                    THEN [@ EXCEPT !.pc = "upsert", !.user[1].staged_card = TRUE]
                    ELSE IF drawn = "empty"
                    THEN [@ EXCEPT !.pc = "unwind", !.ret = Err("CompendiumEmpty", "")]
                    ELSE [@ EXCEPT !.pc = "unwind", !.ret = Err("StorageGeneric", "")]]
    /\ UNCHANGED <<storeVars, transactions, pending, dropVars, listing, lastOp, hist,
                   today, touched, ledger>>

\* users.upsert(user_id, user, Some(&t)).await?
EngUpsert(c) ==
    /\ calls[c].pc = "upsert"
    /\ WriteInTx("upsert", calls[c].tx, UserName, Unwrap(calls[c].user))
    /\ calls' = [calls EXCEPT ![c] =
                    IF lastOp'.res.ok THEN [@ EXCEPT !.pc = "commit"]
                    ELSE [@ EXCEPT !.pc = "unwind", !.ret = Try(lastOp'.res)]]
    /\ UNCHANGED <<today, touched, ledger>>

\* t.commit().await?; Ok(new_currency_amount)
EngCommit(c, outcome) ==
    /\ calls[c].pc = "commit"
    /\ Commit(calls[c].tx, outcome)
    /\ calls' = [calls EXCEPT ![c] =
                    [@ EXCEPT !.pc = "unwind",
                              !.ret = IF lastOp'.res.ok
                                      THEN Ok(Some(Unwrap(calls[c].user).currency))
                                      ELSE Try(lastOp'.res)]]
    /\ ledger' = IF ~hist'[calls[c].tx].applied THEN ledger
                 ELSE IF calls[c].op = "claim"
                 THEN [ledger EXCEPT
                          !.claims[Unwrap(calls[c].user).daily_last_claimed] = @ + 1]
                 ELSE [ledger EXCEPT !.draws = @ + 1]
    /\ UNCHANGED <<today, touched>>

\* the async block ends: the handle t goes out of scope
EngUnwind(c) ==
    /\ calls[c].pc = "unwind"
    /\ Drop(calls[c].tx)
    /\ calls' = [calls EXCEPT ![c].pc = "match"]
    /\ UNCHANGED <<today, touched, ledger>>

\* match ret: another turn of the loop, or break ret
EngMatch(c) ==
    /\ calls[c].pc = "match"
    /\ calls' = [calls EXCEPT ![c] =
                    IF RetryDecision(@.ret, @.retries) = "retry"
                    THEN [@ EXCEPT !.pc = "begin", !.retries = @ - 1, !.att = @ + 1,
                                   !.tx = NoTx, !.user = None,
                                   !.log = Append(@, calls[c].ret.err)]
                    ELSE [@ EXCEPT !.pc = "idle", !.tx = NoTx, !.user = None,
                                   !.log = Append(@, calls[c].ret.err)]]
    /\ UNCHANGED <<storeVars, transactions, pending, dropVars, listing, lastOp, hist,
                   today, touched, ledger>>

\* midnight
Tick ==
    /\ today < MaxDay
    /\ today' = today + 1
    /\ UNCHANGED <<storeVars, transactions, pending, dropVars, listing, lastOp, hist,
                   calls, touched, ledger>>

\* another process rewrites the user document as it is
Touch ==
    /\ touched < MaxTouch
    /\ IsSome(docs[UserName])
    /\ WriteDirect("upsert", UserName, Unwrap(docs[UserName]).v, "ok")
    /\ touched' = touched + 1
    /\ UNCHANGED <<calls, today, ledger>>

\* the engine with the card a character was made from in the store, or not
InitAttempts ==
    /\ docs \in {[n \in Names |-> IF n = UserName THEN Some(Document(User(start, Epoch, FALSE)))
                                  ELSE IF n = PrototypeName THEN card ELSE None] :
                    start \in {0, DRAW_COST}, card \in {None, Some(Document(0))}}
    /\ ledger = [start |-> Unwrap(docs[UserName]).v.currency,
                 claims |-> [d \in Days |-> 0], draws |-> 0]
    /\ ver = [n \in Names |-> 0]
    /\ remote = [t \in Txns |-> RemoteNone]
    /\ InitClient
    /\ calls = [c \in Clients |-> NoCall]
    /\ today = 0
    /\ touched = 0
    /\ InitToken({3600})
    /\ InitModels

InitEngine ==
    /\ \E start \in {0, DRAW_COST} :
          /\ docs = [n \in Names |-> IF n = UserName
                                      THEN Some(Document(User(start, Epoch, FALSE)))
                                      ELSE None]
          /\ ledger = [start |-> start, claims |-> [d \in Days |-> 0], draws |-> 0]
    /\ ver = [n \in Names |-> 0]
    /\ remote = [t \in Txns |-> RemoteNone]
    /\ InitClient
    /\ calls = [c \in Clients |-> NoCall]
    /\ today = 0
    /\ touched = 0
    /\ InitToken({3600})
    /\ InitModels

\* ------------------------------------------------ the token refresh task
\* while let Err(TryRecvError::Empty) = oauth_rx.try_recv(), then the delay
\* is computed and delay_for starts
RefreshLoop ==
    /\ oauth_task.pc = "loop"
    /\ IF try_recv(manager) = "Empty"
       THEN \E d \in delay_duration(oauth_expires_in) :
               /\ oauth_task' = IF d.ok
                                THEN [oauth_task EXCEPT !.pc = "sleep", !.delay = d.val]
                                ELSE [oauth_task EXCEPT !.pc = "panicked"]
               /\ after_discard' = IF d.ok THEN Since("sleeps") ELSE after_discard
       ELSE /\ oauth_task' = [oauth_task EXCEPT !.pc = "exited"]
            /\ UNCHANGED after_discard
    /\ UNCHANGED <<oauth_token, oauth_expires_in, oauth_lock, requests, manager>>

\* delay_for returns (a sleep of a wrapped duration, more than 2^63 seconds,
\* does not), then the second try_recv
RefreshWake ==
    /\ oauth_task.pc = "sleep"
    /\ ~oauth_task.delay.wrapped
    /\ oauth_task' = IF try_recv(manager) = "Closed"
                     THEN [oauth_task EXCEPT !.pc = "exited"]
                     ELSE [oauth_task EXCEPT !.pc = "build_jwt", !.failed = FALSE,
                                             !.prev = oauth_token]
    /\ UNCHANGED <<oauth_token, oauth_expires_in, oauth_lock, requests, manager,
                   after_discard>>

\* build_jwt, and on Ok the token exchange request is sent
RefreshBuildJwt(outcome) ==
    /\ oauth_task.pc = "build_jwt"
    /\ IF outcome = "ok"
       THEN /\ oauth_task' = [oauth_task EXCEPT !.pc = "exchange"]
            /\ after_discard' = Since("exchanges")
            /\ UNCHANGED oauth_expires_in
       ELSE /\ oauth_task' = [oauth_task EXCEPT !.pc = "loop", !.failed = TRUE]
            /\ oauth_expires_in' = RetryDelay
            /\ UNCHANGED after_discard
    /\ UNCHANGED <<oauth_token, oauth_lock, requests, manager>>

\* get_oauth_token returns
RefreshExchange(outcome, token, lifetime) ==
    /\ oauth_task.pc = "exchange"
    /\ IF outcome = "ok"
       THEN /\ oauth_task' = [oauth_task EXCEPT !.pc = "write",
                                 !.got = [token |-> token, expires_in |-> lifetime]]
            /\ UNCHANGED oauth_expires_in
       ELSE /\ oauth_task' = [oauth_task EXCEPT !.pc = "loop", !.failed = TRUE]
            /\ oauth_expires_in' = RetryDelay
    /\ UNCHANGED <<oauth_token, oauth_lock, requests, manager, after_discard>>

\* oauth_token_clone.write().await
RefreshWriteLock ==
    /\ oauth_task.pc = "write"
    /\ ~oauth_lock.writer /\ oauth_lock.readers = {}
    /\ oauth_lock' = [oauth_lock EXCEPT !.writer = TRUE]
    /\ oauth_task' = [oauth_task EXCEPT !.pc = "assign"]
    /\ UNCHANGED <<oauth_token, oauth_expires_in, requests, manager, after_discard>>

\* *oauth_token = ret.0; oauth_expires_in = ret.1 as u64; the guard is dropped
RefreshAssign ==
    /\ oauth_task.pc = "assign"
    /\ oauth_token' = oauth_task.got.token
    /\ oauth_expires_in' = oauth_task.got.expires_in
    /\ oauth_lock' = [oauth_lock EXCEPT !.writer = FALSE]
    /\ oauth_task' = [oauth_task EXCEPT !.pc = "loop", !.got = Parked.got]
    /\ after_discard' = Since("writes")
    /\ UNCHANGED <<requests, manager>>

\* a request path takes the read lock: self._oauth_token.read().await
RequestRead(r) ==
    /\ requests[r].pc = "idle"
    /\ ~oauth_lock.writer
    /\ oauth_lock' = [oauth_lock EXCEPT !.readers = @ \cup {r}]
    /\ requests' = [requests EXCEPT ![r] = [pc |-> "build", token |-> oauth_token]]
    /\ UNCHANGED <<oauth_token, oauth_expires_in, oauth_task, manager, after_discard>>

\* the request is built, the guard dropped, and self.client.request(req) sent
RequestSend(r) ==
    /\ requests[r].pc = "build"
    /\ oauth_lock' = [oauth_lock EXCEPT !.readers = ReleaseRead(@, r)]
    /\ requests' = [requests EXCEPT ![r].pc = "network"]
    /\ UNCHANGED <<oauth_token, oauth_expires_in, oauth_task, manager, after_discard>>

\* the response arrives
RequestDone(r) ==
    /\ requests[r].pc = "network"
    /\ requests' = [requests EXCEPT ![r] = NoRequest]
    /\ UNCHANGED <<oauth_token, oauth_expires_in, oauth_task, oauth_lock, manager,
                   after_discard>>

\* the Firestore value is dropped, and _oauth_refresh_cancellation with it
Discard ==
    /\ manager = "alive"
    /\ manager' = "discarded"
    /\ after_discard' = [NotDiscarded EXCEPT !.asleep = (oauth_task.pc = "sleep")]
    /\ UNCHANGED <<oauth_token, oauth_expires_in, oauth_task, oauth_lock, requests>>

\* ------- Api::complete_job, take_job, promote_staged_card, scrap_staged_card
CURRENCY_GAIN == 70
EXP_GAIN == 70
SCRAP_REFUND == 1

\* experience::experience_add
experience_add(original_level, original_exp, exp_to_add) ==
    [level |-> original_level + ((original_exp + exp_to_add) \div 100),
     exp |-> (original_exp + exp_to_add) % 100]

boardRest == <<clientVars, tokenVars, codec, compendium, jobs, registry>>

\* begin_transaction: a transaction with nothing read and nothing buffered
TxNew(r) == [r EXCEPT !.active = TRUE, !.reads = {}, !.stale = FALSE, !.writes = {}]
\* get / batch_get through the transaction: the store notes what it read
TxGet(r, ds) == [r EXCEPT !.reads = @ \cup ds]
\* upsert / delete through the transaction: append_write
TxWrite(r, d, v) == [r EXCEPT !.writes = @ \cup {[doc |-> d, val |-> v]}]
\* the async block ends with ret, and the handle t goes out of scope
AttemptEnds(r, ret) ==
    [r EXCEPT !.pc = "match", !.ret = ret, !.active = FALSE, !.reads = {},
              !.stale = FALSE, !.writes = {}, !.user = None, !.job = None,
              !.report = None]
\* the `?` on a failed read
StorageFailed(r) == AttemptEnds(r, Err("StorageGeneric", ""))
\* todo!() and expect(): the task of the call panics
Panics(r) == [AttemptEnds(r, Err("Panic", "")) EXCEPT !.pc = "idle"]

\* a caller enters one of the operations
ApiCall(c, op, arg) ==
    /\ board.run[c].pc = "idle"
    /\ board.run[c].n < MaxApiCalls
    /\ board' = [board EXCEPT !.run[c] =
                    [NoRun EXCEPT !.op = op, !.pc = "begin", !.arg = arg,
                                  !.n = board.run[c].n + 1,
                                  !.retries = InitialRetries,
                                  !.late = /\ op = "complete_job"
                                           /\ IsNone(board.docs[JobDoc(arg)])]]

\* users.begin_transaction(TransactionType::ReadWrite).await?
ApiBegin(c, status) ==
    LET r == board.run[c]
    IN  /\ r.pc = "begin"
        /\ board' = [board EXCEPT !.run[c] =
                        IF status = 200
                        THEN [TxNew(r) EXCEPT !.pc = IF r.op = "complete_job"
                                                    THEN "job" ELSE "user"]
                        ELSE StorageFailed(r)]

\* job_fs.get::<Job>(job_id, Some(&t)).await? and job.can_complete()
CompleteJobGetJob(c, ok) ==
    LET r == board.run[c]
        d == JobDoc(r.arg)
        job == board.docs[d]
    IN  /\ r.op = "complete_job"
        /\ r.pc = "job"
        /\ board' = [board EXCEPT !.run[c] =
              IF ~ok THEN StorageFailed(r)
              ELSE IF IsNone(job) THEN AttemptEnds(r, Err("JobNotFound", ""))
              ELSE IF can_complete(Unwrap(job).completion_time, board.now)
              THEN [TxGet(r, {d}) EXCEPT !.pc = "report", !.job = job]
              ELSE AttemptEnds(r, Err("JobNotComplete", ""))]

\* generate_job_completion_report(job, &t)
generate_job_completion_report(c, ok) ==
    LET r == board.run[c]
        ids == Unwrap(r.job).character_ids
        ds == {CharacterDoc(k) : k \in ids}
    IN  /\ r.op = "complete_job"
        /\ r.pc = "report"
        /\ board' = [board EXCEPT !.run[c] =
              IF ~ok THEN StorageFailed(r)
              ELSE IF \E d \in ds : IsNone(board.docs[d]) THEN Panics(r)
              ELSE [TxGet(r, ds) EXCEPT
                       !.pc = "user",
                       !.report = Some(
                          [currency_gain |-> CURRENCY_GAIN,
                           experience_gain |->
                              [k \in ids |->
                                  LET ch == Unwrap(board.docs[CharacterDoc(k)])
                                  IN  experience_add(ch.level, ch.experience,
                                                     EXP_GAIN)]])]]

\* users.get::<User>(user_id, Some(&t)), user.currency += report.currency_gain,
\* users.upsert(user_id, user, Some(&t))
CompleteJobGetUser(c, ok) ==
    LET r == board.run[c]
        user == board.docs[UserDoc]
    IN  /\ r.op = "complete_job"
        /\ r.pc = "user"
        /\ board' = [board EXCEPT !.run[c] =
              IF ~ok THEN StorageFailed(r)
              ELSE IF IsNone(user) THEN Panics(r)
              ELSE [TxWrite(TxGet(r, {UserDoc}), UserDoc,
                            Some([Unwrap(user) EXCEPT !.currency =
                                     @ + Unwrap(r.report).currency_gain]))
                       EXCEPT !.pc = "characters"]]

\* char_fs.batch_get(&char_ids, Some(&t)), the upsert of every character with
\* the level and experience of the report, job_fs.delete(job_id, Some(&t))
CompleteJobCharacters(c, ok) ==
    LET r == board.run[c]
        eg == Unwrap(r.report).experience_gain
        ds == {CharacterDoc(k) : k \in DOMAIN eg}
    IN  /\ r.op = "complete_job"
        /\ r.pc = "characters"
        /\ board' = [board EXCEPT !.run[c] =
              IF ~ok THEN StorageFailed(r)
              ELSE IF \E d \in ds : IsNone(board.docs[d]) THEN Panics(r)
              ELSE [TxGet(r, ds) EXCEPT
                       !.pc = "commit",
                       !.writes = @ \cup
                          {[doc |-> CharacterDoc(k),
                            val |-> Some([Unwrap(board.docs[CharacterDoc(k)]) EXCEPT
                                             !.level = eg[k].level,
                                             !.experience = eg[k].exp])] :
                             k \in DOMAIN eg}
                          \cup {[doc |-> JobDoc(r.arg), val |-> None]}]]

\* a store that applies a commit whatever was written since the reads
CommitStatusUnchecked(r) == 200

\* the store's answer to the commit: ABORTED when a document the transaction
\* read was written since
CommitStatus(r) == IF r.stale THEN 409 ELSE 200

\* t.commit().await?: the store applies all the writes or none
ApiCommit(c, outcome) ==
    LET r == board.run[c]
        status == CommitStatus(r)
        seen == Seen(outcome, status)
        res == IF seen = Transport THEN Err("Hyper", "") ELSE commit_internal(seen)
        applies == Served(outcome) /\ status = 200
        written == {w.doc : w \in r.writes}
    IN  /\ r.pc = "commit"
        /\ board' = [board EXCEPT
              !.docs = IF applies
                       THEN [d \in BoardDocs |->
                                IF d \in written
                                THEN (CHOOSE w \in r.writes : w.doc = d).val
                                ELSE board.docs[d]]
                       ELSE @,
              !.applied = IF applies
                          THEN Append(@, [c |-> c, op |-> r.op, arg |-> r.arg])
                          ELSE @,
              !.run = [x \in 1 .. MaxClient |->
                          IF x = c
                          THEN AttemptEnds(r, IF res.ok THEN Ok(None) ELSE Try(res))
                          ELSE IF /\ applies
                                  /\ board.run[x].active
                                  /\ board.run[x].reads \cap written # {}
                          THEN [board.run[x] EXCEPT !.stale = TRUE]
                          ELSE board.run[x]]]

\* match ret: another turn of the loop, or break ret
ApiMatch(c) ==
    LET r == board.run[c]
    IN  /\ r.pc = "match"
        /\ board' = [board EXCEPT !.run[c] =
                        IF RetryDecision(r.ret, r.retries) = "retry"
                        THEN [r EXCEPT !.pc = "begin", !.retries = @ - 1]
                        ELSE [r EXCEPT !.pc = "idle"]]

\* take_job: users.get::<User>(&user_id, Some(&t))
TakeJobGetUser(c, ok) ==
    LET r == board.run[c]
    IN  /\ r.op = "take_job"
        /\ r.pc = "user"
        /\ board' = [board EXCEPT !.run[c] =
              IF ~ok THEN StorageFailed(r)
              ELSE IF IsNone(board.docs[UserDoc])
              THEN AttemptEnds(r, Err("UserNotFound", ""))
              ELSE [TxGet(r, {UserDoc}) EXCEPT !.pc = "characters"]]

\* take_job: char_fs.batch_get::<Character>(&character_ids, Some(&t))
TakeJobCharacters(c, ok) ==
    LET r == board.run[c]
    IN  /\ r.op = "take_job"
        /\ r.pc = "characters"
        /\ board' = [board EXCEPT !.run[c] =
              IF ~ok THEN StorageFailed(r)
              ELSE IF IsNone(board.docs[CharacterDoc(r.arg)])
              THEN AttemptEnds(r, Err("CharacterNotFound", ""))
              ELSE [TxGet(r, {CharacterDoc(r.arg)}) EXCEPT !.pc = "preoccupied"]]

\* Api::get_current_job_for_character: fs.list::<Job>(), outside the
\* transaction, and the first job with the character
get_current_job_for_character(character_id) ==
    LET found == {j \in {0} \cup FreshIds :
                     /\ IsSome(board.docs[JobDoc(j)])
                     /\ character_id \in Unwrap(board.docs[JobDoc(j)]).character_ids}
    IN  IF found = {} THEN None ELSE Some(CHOOSE j \in found : TRUE)

\* take_job: the check that no character is on a job (an error of the list
\* counts as preoccupied), job_board.create_job and job_fs.upsert(.., Some(&t))
TakeJobPreoccupied(c, ok, listed) ==
    LET r == board.run[c]
    IN  /\ r.op = "take_job"
        /\ r.pc = "preoccupied"
        /\ board' = [board EXCEPT !.run[c] =
              IF ~ok \/ IsSome(get_current_job_for_character(r.arg))
              THEN AttemptEnds(r, Err("CharacterPreoccupied", ""))
              ELSE IF ~listed THEN AttemptEnds(r, Err("JobNotFound", ""))
              ELSE [TxWrite(r, JobDoc(FreshId(c, r.n)),
                            Some(Job(FreshId(c, r.n), {r.arg}, board.now)))
                       EXCEPT !.pc = "commit"]]

\* a read of the user made outside the transaction: get(user_id, None)
StageGetUserOutsideTx(c, ok) ==
    LET r == board.run[c]
        user == board.docs[UserDoc]
    IN  /\ r.op \in {"promote_staged_card", "scrap_staged_card"}
        /\ r.pc = "user"
        /\ board' = [board EXCEPT !.run[c] =
              IF ~ok THEN StorageFailed(r)
              ELSE IF IsNone(user) THEN AttemptEnds(r, Err("UserNotFound", ""))
              ELSE IF IsNone(Unwrap(user).staged_card)
              THEN AttemptEnds(r, Err("DrawStageEmpty", ""))
              ELSE IF Unwrap(Unwrap(user).staged_card) # r.arg
              THEN AttemptEnds(r, Err("IdMismatch", ""))
              ELSE IF r.op = "scrap_staged_card"
              THEN [TxWrite(r, UserDoc,
                            Some([Unwrap(user) EXCEPT
                                     !.currency = @ + SCRAP_REFUND,
                                     !.staged_card = None]))
                       EXCEPT !.pc = "commit"]
              ELSE [r EXCEPT !.pc = "card", !.user = user]]

\* promote_ and scrap_staged_card: users.get::<User>(user_id, Some(&t)) and the
\* match on user.staged_card; scrap buffers the refunded user
StageGetUser(c, ok) ==
    LET r == board.run[c]
        user == board.docs[UserDoc]
    IN  /\ r.op \in {"promote_staged_card", "scrap_staged_card"}
        /\ r.pc = "user"
        /\ board' = [board EXCEPT !.run[c] =
              IF ~ok THEN StorageFailed(r)
              ELSE IF IsNone(user) THEN AttemptEnds(r, Err("UserNotFound", ""))
              ELSE IF IsNone(Unwrap(user).staged_card)
              THEN AttemptEnds(r, Err("DrawStageEmpty", ""))
              ELSE IF Unwrap(Unwrap(user).staged_card) # r.arg
              THEN AttemptEnds(r, Err("IdMismatch", ""))
              ELSE IF r.op = "scrap_staged_card"
              THEN [TxWrite(TxGet(r, {UserDoc}), UserDoc,
                            Some([Unwrap(user) EXCEPT
                                     !.currency = @ + SCRAP_REFUND,
                                     !.staged_card = None]))
                       EXCEPT !.pc = "commit"]
              ELSE [TxGet(r, {UserDoc}) EXCEPT !.pc = "card", !.user = user]]

\* promote_staged_card: cards.get::<Card>(&staged_card_id, Some(&t)), the new
\* character and the user with the stage emptied, both buffered
PromoteGetCard(c, ok) ==
    LET r == board.run[c]
        user == Unwrap(r.user)
        staged_card_id == Unwrap(user.staged_card)
    IN  /\ r.op = "promote_staged_card"
        /\ r.pc = "card"
        /\ board' = [board EXCEPT !.run[c] =
              IF ~ok THEN StorageFailed(r)
              ELSE IF IsNone(board.docs[CardDoc(staged_card_id)])
              THEN AttemptEnds(r, Err("CardNotFound", ""))
              ELSE [TxWrite(TxWrite(TxGet(r, {CardDoc(staged_card_id)}),
                                    CharacterDoc(FreshId(c, r.n)),
                                    Some(CharacterNew(FreshId(c, r.n), staged_card_id))),
                            UserDoc, Some([user EXCEPT !.staged_card = None]))
                       EXCEPT !.pc = "commit"]]

\* the account a job is completed on: a user, a character and the job it is on
InitComplete ==
    /\ InitStore /\ InitClient /\ InitEngineVars /\ InitToken({3600})
    /\ \E completion_time \in {0, MaxNow}, now \in {0, MaxNow}, experience \in {0, 50} :
          InitModelsWith(Board(
             [d \in BoardDocs |->
                 IF d = UserDoc THEN Some(User(0, Epoch, None))
                 ELSE IF d = CharacterDoc(0) THEN Some(Character(0, 1, 1, experience))
                 ELSE IF d = JobDoc(0) THEN Some(Job(0, {0}, completion_time))
                 ELSE None], now), NoRegistry)

\* the account a job is taken on: a user and a character on no job
InitTakeJob ==
    /\ InitStore /\ InitClient /\ InitEngineVars /\ InitToken({3600})
    /\ InitModelsWith(Board(
          [d \in BoardDocs |->
              IF d = UserDoc THEN Some(User(0, Epoch, None))
              ELSE IF d = CharacterDoc(0) THEN Some(Character(0, 1, 1, 0))
              ELSE None], 0), NoRegistry)

\* the account with a drawn card on the stage; the card may have left the
\* compendium
InitStage ==
    /\ InitStore /\ InitClient /\ InitEngineVars /\ InitToken({3600})
    /\ \E cards \in {{}, CardIds} :
          InitModelsWith(Board(
             [d \in BoardDocs |->
                 IF d = UserDoc THEN Some(User(0, Epoch, Some(1)))
                 ELSE IF d \in {CardDoc(i) : i \in cards} THEN Some(d[2])
                 ELSE None], 0), NoRegistry)

\* ----------------------------------------------- UserRegistry operations
registryRest == <<clientVars, tokenVars, codec, compendium, jobs, board>>

RegistryOp(op, id, res, before, written) ==
    [op |-> op, id |-> id, res |-> res, before |-> before, written |-> written]

\* UserRegistry::from_storage: the map is what storage.read_all() gave
from_storage(stored) == [current |-> stored, storage |-> stored, last |-> NoRegistryOp]

\* UserRegistry::add_user(user); write_ok: storage.write(..) returned Ok
add_user(id, user, write_ok) ==
    registry' =
        IF IsSome(registry.current[id])
        THEN [registry EXCEPT
                 !.last = RegistryOp("add_user", id, "Conflict",
                                     registry.current[id], FALSE)]
        ELSE [registry EXCEPT
                 !.current[id] = Some(user),
                 !.storage[id] = IF write_ok THEN Some(user) ELSE @,
                 !.last = RegistryOp("add_user", id,
                                     IF write_ok THEN "Ok" ELSE "Storage",
                                     registry.current[id], write_ok)]

\* UserRegistry::mutate_user_if(user_id, precondition, f); met: what
\* precondition(entry_ref) returned; mutated: what f left in the clone when it
\* returned Ok, None when it returned Err
mutate_user_if(id, met, mutated, write_ok) ==
    LET before == registry.current[id]
        failed(res) == [registry EXCEPT
                           !.last = RegistryOp("mutate_user_if", id, res, before, FALSE)]
    IN  registry' =
            IF IsNone(before) THEN failed("NotFound")
            ELSE IF ~met THEN failed("FailedPrecondition")
            ELSE IF IsNone(mutated) THEN failed("ExternalOperation")
            ELSE IF ~write_ok THEN failed("Storage")
            ELSE [registry EXCEPT
                     !.storage[id] = mutated,
                     !.current[id] = mutated,
                     !.last = RegistryOp("mutate_user_if", id, "Ok", before, TRUE)]

\* a registry loaded from a storage that holds any users
InitRegistry ==
    /\ InitStore /\ InitClient /\ InitEngineVars /\ InitToken({3600})
    /\ \E stored \in [UserIds -> {None} \cup {Some(u) : u \in RegistryUsers}] :
          InitModelsWith(NoBoard, from_storage(stored))

\* -------------------------------------------------------------------- Next
Statuses == {200, 500, Transport}
GetOutcomes == {"ok", "error", "lost_request"}
Kinds == {"upsert", "delete"}

\* Spec: every operation of the client, on the names SpecNames
Next ==
    \/ \E o \in Statuses : BeginTransaction(SpecTxns, o) /\ UNCHANGED <<engineVars, restVars>>
    \/ \E t \in SpecTxns, n \in SpecNames : GetStart(t, n) /\ UNCHANGED <<engineVars, restVars>>
    \/ \E t \in SpecTxns, n \in SpecNames, o \in GetOutcomes : GetFinish(t, n, o) /\ UNCHANGED <<engineVars, restVars>>
    \/ \E n \in SpecNames, o \in GetOutcomes : GetDirect(n, o) /\ UNCHANGED <<engineVars, restVars>>
    \/ \E k \in Kinds, t \in SpecTxns, n \in SpecNames, v \in Vals : WriteInTx(k, t, n, v) /\ UNCHANGED <<engineVars, restVars>>
    \/ \E k \in Kinds, n \in SpecNames, v \in Vals, o \in Outcomes :
           ver[n] < MaxVer /\ WriteDirect(k, n, v, o)
              /\ UNCHANGED <<engineVars, restVars>>
    \/ \E t \in SpecTxns, o \in Outcomes : Commit(t, o) /\ UNCHANGED <<engineVars, restVars>>
    \/ \E t \in SpecTxns : Abort(t) /\ UNCHANGED <<engineVars, restVars>>
    \/ \E t \in SpecTxns : Drop(t) /\ UNCHANGED <<engineVars, restVars>>
    \/ \E o \in Outcomes : DropWorker(o) /\ UNCHANGED <<engineVars, restVars>>
    \/ \E ids \in SUBSET SpecNames, t \in SpecTxns, o \in {"ok", "error"} :
           BatchGet(ids, t, o) /\ UNCHANGED <<engineVars, restVars>>

Spec == Init /\ [][Next]_vars

\* SpecWrites: the write path, list and the non-transactional reads, on all
\* names (another writer writes the names SpecNames)
NextWrites ==
    \/ \E o \in Statuses : BeginTransaction(SpecTxns, o) /\ UNCHANGED <<engineVars, restVars>>
    \/ \E n \in Names, o \in GetOutcomes : GetDirect(n, o) /\ UNCHANGED <<engineVars, restVars>>
    \/ \E k \in Kinds, t \in SpecTxns, n \in Names, v \in Vals : WriteInTx(k, t, n, v) /\ UNCHANGED <<engineVars, restVars>>
    \/ \E k \in Kinds, n \in SpecNames, v \in Vals, o \in Outcomes :
           ver[n] < MaxVer /\ WriteDirect(k, n, v, o)
              /\ UNCHANGED <<engineVars, restVars>>
    \/ \E t \in SpecTxns, o \in Outcomes : Commit(t, o) /\ UNCHANGED <<engineVars, restVars>>
    \/ \E t \in SpecTxns : Abort(t) /\ UNCHANGED <<engineVars, restVars>>
    \/ \E t \in SpecTxns : Drop(t) /\ UNCHANGED <<engineVars, restVars>>
    \/ \E o \in Outcomes : DropWorker(o) /\ UNCHANGED <<engineVars, restVars>>
    \/ ListStart /\ UNCHANGED <<engineVars, restVars>>
    \/ \E o \in GetOutcomes : ListStep(o) /\ UNCHANGED <<engineVars, restVars>>

SpecWrites == Init /\ [][NextWrites]_vars

\* SpecDrop: handles begun, finalized and discarded, and the drop worker
NextDrop ==
    \/ \E o \in Statuses : BeginTransaction(Txns, o) /\ UNCHANGED <<engineVars, restVars>>
    \/ \E t \in Txns, o \in Outcomes : Commit(t, o) /\ UNCHANGED <<engineVars, restVars>>
    \/ \E t \in Txns : Abort(t) /\ UNCHANGED <<engineVars, restVars>>
    \/ \E t \in Txns : AbortResume(t) /\ UNCHANGED <<engineVars, restVars>>
    \/ \E t \in Txns : Drop(t) /\ UNCHANGED <<engineVars, restVars>>
    \/ \E o \in Outcomes : DropWorker(o) /\ UNCHANGED <<engineVars, restVars>>

SpecDrop == Init /\ [][NextDrop]_vars
\* SpecEngine: callers running claim_user_daily_reward and draw_card for one
\* user at the same time within one day, and the drop worker
NextEngine ==
    \/ \E c \in Clients, op \in {"claim", "draw"} : Call(c, op) /\ UNCHANGED restVars
    \/ \E c \in Clients, o \in {200, 500} : EngBegin(c, o) /\ UNCHANGED restVars
    \/ \E c \in Clients : EngGet(c) /\ UNCHANGED restVars
    \/ \E c \in Clients, o \in {"ok", "error"} : EngGetWait(c, o) /\ UNCHANGED restVars
    \/ \E c \in Clients, d \in {"card", "empty"} : EngCard(c, d) /\ UNCHANGED restVars
    \/ \E c \in Clients : EngUpsert(c) /\ UNCHANGED restVars
    \/ \E c \in Clients, o \in {"ok", "error", "lost_response"} : EngCommit(c, o) /\ UNCHANGED restVars
    \/ \E c \in Clients : EngUnwind(c) /\ UNCHANGED restVars
    \/ \E c \in Clients : EngMatch(c) /\ UNCHANGED restVars
    \/ \E o \in {"ok", "lost_request"} : DropWorker(o) /\ UNCHANGED <<engineVars, restVars>>

SpecEngine == InitEngine /\ [][NextEngine]_vars

\* SpecRetry: one caller over the days, while another process writes the user
\* document
NextRetry ==
    \/ \E op \in {"claim", "draw"} : Call(1, op) /\ UNCHANGED restVars
    \/ \E o \in {200, 500} : EngBegin(1, o) /\ UNCHANGED restVars
    \/ EngGet(1) /\ UNCHANGED restVars
    \/ \E o \in {"ok", "error"} : EngGetWait(1, o) /\ UNCHANGED restVars
    \/ \E d \in {"card", "empty"} : EngCard(1, d) /\ UNCHANGED restVars
    \/ EngUpsert(1) /\ UNCHANGED restVars
    \/ \E o \in {"ok", "error", "lost_response"} : EngCommit(1, o) /\ UNCHANGED restVars
    \/ EngUnwind(1) /\ UNCHANGED restVars
    \/ EngMatch(1) /\ UNCHANGED restVars
    \/ Tick /\ UNCHANGED restVars
    \/ Touch /\ UNCHANGED restVars
    \/ \E o \in {"ok", "lost_request"} : DropWorker(o) /\ UNCHANGED <<engineVars, restVars>>

SpecRetry == InitEngine /\ [][NextRetry]_vars

\* SpecReads: get within a transaction (one request at a time per name),
\* batch_get with and without transaction, and list, on all names, while
\* another writer writes the documents
NextReads ==
    \/ \E o \in {200, 500} : BeginTransaction(SpecTxns, o) /\ UNCHANGED <<engineVars, restVars>>
    \/ \E t \in SpecTxns, n \in Names :
           pending[t][n] = 0 /\ GetStart(t, n) /\ UNCHANGED <<engineVars, restVars>>
    \/ \E t \in SpecTxns, n \in Names, o \in {"ok", "error"} :
           GetFinish(t, n, o) /\ UNCHANGED <<engineVars, restVars>>
    \/ \E ids \in SUBSET Names, t \in SpecTxns \cup {NoTx}, o \in {"ok", "error"} :
           BatchGet(ids, t, o) /\ UNCHANGED <<engineVars, restVars>>
    \/ \E k \in Kinds, n \in Names, v \in Vals :
           ver[n] < MaxVer /\ WriteDirect(k, n, v, "ok")
              /\ UNCHANGED <<engineVars, restVars>>
    \/ \E t \in SpecTxns : Drop(t) /\ UNCHANGED <<engineVars, restVars>>
    \/ DropWorker("ok") /\ UNCHANGED <<engineVars, restVars>>
    \/ ListStart /\ UNCHANGED <<engineVars, restVars>>
    \/ \E o \in {"ok", "error"} : ListStep(o) /\ UNCHANGED <<engineVars, restVars>>

SpecReads == Init /\ [][NextReads]_vars

\* SpecKinds: transactions of both kinds, their writes and how they end
NextKinds ==
    \/ \E k \in TransactionType, o \in {200, 500} :
           BeginTransactionAs(k, SpecTxns, o) /\ UNCHANGED <<engineVars, restVars>>
    \/ \E k \in Kinds, t \in SpecTxns, n \in Names, v \in Vals :
           WriteInTx(k, t, n, v) /\ UNCHANGED <<engineVars, restVars>>
    \/ \E t \in SpecTxns, o \in Outcomes : Commit(t, o) /\ UNCHANGED <<engineVars, restVars>>
    \/ \E t \in SpecTxns : Abort(t) /\ UNCHANGED <<engineVars, restVars>>
    \/ \E t \in SpecTxns : Drop(t) /\ UNCHANGED <<engineVars, restVars>>
    \/ \E o \in Outcomes : DropWorker(o) /\ UNCHANGED <<engineVars, restVars>>

SpecKinds == Init /\ [][NextKinds]_vars

\* SpecInsert: insert, and the writes and reads without transaction, on all
\* names
NextInsert ==
    \/ \E n \in Names, v \in Vals, o \in Outcomes :
           (IsNone(docs[n]) => ver[n] < MaxVer) /\ Insert(n, v, o)
              /\ UNCHANGED <<engineVars, restVars>>
    \/ \E k \in Kinds, n \in Names, v \in Vals, o \in Outcomes :
           ver[n] < MaxVer /\ WriteDirect(k, n, v, o)
              /\ UNCHANGED <<engineVars, restVars>>
    \/ \E n \in Names, o \in GetOutcomes : GetDirect(n, o) /\ UNCHANGED <<engineVars, restVars>>

SpecInsert == Init /\ [][NextInsert]_vars

\* SpecToken: the token refresh task, the request paths that read the token,
\* and the manager being discarded
InitTokenSpec ==
    InitStore /\ InitClient /\ InitEngineVars /\ InitToken(Lifetimes) /\ InitModels

NextToken ==
    \/ RefreshLoop /\ UNCHANGED <<clientVars, modelVars>>
    \/ RefreshWake /\ UNCHANGED <<clientVars, modelVars>>
    \/ \E o \in {"ok", "error"} : RefreshBuildJwt(o) /\ UNCHANGED <<clientVars, modelVars>>
    \/ \E o \in {"ok", "error"}, k \in Tokens, l \in Lifetimes :
           RefreshExchange(o, k, l) /\ UNCHANGED <<clientVars, modelVars>>
    \/ RefreshWriteLock /\ UNCHANGED <<clientVars, modelVars>>
    \/ RefreshAssign /\ UNCHANGED <<clientVars, modelVars>>
    \/ \E r \in Requesters : RequestRead(r) /\ UNCHANGED <<clientVars, modelVars>>
    \/ \E r \in Requesters : RequestSend(r) /\ UNCHANGED <<clientVars, modelVars>>
    \/ \E r \in Requesters : RequestDone(r) /\ UNCHANGED <<clientVars, modelVars>>
    \/ Discard /\ UNCHANGED <<clientVars, modelVars>>

SpecToken == InitTokenSpec /\ [][NextToken]_vars

\* SpecCodec: values of the entity types are encoded into documents, the
\* documents are echoed by the store or damaged, and decoded
NextCodec ==
    \/ \E entity \in Entities \cup {"f64"} : \E x \in ValuesOf(entity) :
           Encode(entity, x) /\ UNCHANGED <<clientVars, tokenVars, compendium, jobs, board, registry>>
    \/ Echo /\ UNCHANGED <<clientVars, tokenVars, compendium, jobs, board, registry>>
    \/ \E field \in {"currency", "daily_last_claimed", "name", "image_uri", "stat_base",
                     "stat_multiplier", "prototype_id", "level", "completion_time",
                     "user_id", "character_ids", "recommended_stats", "description",
                     "duration_mins", "value"},
          inner \in {"", "physical", "mental", "tactical"},
          kind \in {"IntegerValue", "TimestampValue", "StringValue", "MapValue",
                    "DoubleValue", "ArrayValue"},
          how \in {"missing", "wrong_tag", "empty_map"} :
           Damage(field, inner, kind, how)
           /\ UNCHANGED <<clientVars, tokenVars, compendium, jobs, board, registry>>
    \/ Decode /\ UNCHANGED <<clientVars, tokenVars, compendium, jobs, board, registry>>

SpecCodec == Init /\ [][NextCodec]_vars

\* SpecCompendium: cards are put into the compendium and the file is reloaded
NextCompendium ==
    \/ \E card \in CompendiumCards, o \in {"ok", "error"} :
           upsert_card(card, o) /\ UNCHANGED <<clientVars, tokenVars, codec, jobs, board, registry>>
    \/ from_file /\ UNCHANGED <<clientVars, tokenVars, codec, jobs, board, registry>>

SpecCompendium == Init /\ [][NextCompendium]_vars

\* SpecJobs: jobs are taken and completed while the clock advances
NextJobs ==
    \/ Clock /\ UNCHANGED <<clientVars, tokenVars, codec, compendium, board, registry>>
    \/ \E j \in JobIds, d \in 0..MaxDuration :
           JobNew(j, d) /\ UNCHANGED <<clientVars, tokenVars, codec, compendium, board, registry>>
    \/ \E j \in JobIds, o \in {"ok", "error"} :
           complete_job(j, o) /\ UNCHANGED <<clientVars, tokenVars, codec, compendium, board, registry>>

SpecJobs == Init /\ [][NextJobs]_vars

\* SpecAttempts: one caller's operations, read-only ones too, attempt by
\* attempt, while another process writes the user document
NextAttempts ==
    \/ \E op \in {"claim", "draw", "get_character"} : Call(1, op) /\ UNCHANGED restVars
    \/ \E o \in {200, 500} : EngBegin(1, o) /\ UNCHANGED restVars
    \/ EngGet(1) /\ UNCHANGED restVars
    \/ \E o \in {"ok", "error"} : EngGetWait(1, o) /\ UNCHANGED restVars
    \/ EngPrototype(1) /\ UNCHANGED restVars
    \/ \E o \in {"ok", "error"} : EngPrototypeWait(1, o) /\ UNCHANGED restVars
    \/ \E d \in {"card", "empty"} : EngCard(1, d) /\ UNCHANGED restVars
    \/ EngUpsert(1) /\ UNCHANGED restVars
    \/ \E o \in {"ok", "error", "lost_response"} : EngCommit(1, o) /\ UNCHANGED restVars
    \/ EngUnwind(1) /\ UNCHANGED restVars
    \/ EngMatch(1) /\ UNCHANGED restVars
    \/ Touch /\ UNCHANGED restVars
    \/ \E o \in {"ok", "lost_request"} : DropWorker(o) /\ UNCHANGED <<engineVars, restVars>>

SpecAttempts == InitAttempts /\ [][NextAttempts]_vars

\* SpecWorker: handles begun, finalized and discarded, the Firestore value
\* discarded, and the drop worker until it stops
NextWorker ==
    \/ \E o \in Statuses :
           manager = "alive" /\ BeginTransaction(Txns, o)
              /\ UNCHANGED <<engineVars, restVars>>
    \/ \E t \in Txns, o \in Outcomes : Commit(t, o) /\ UNCHANGED <<engineVars, restVars>>
    \/ \E t \in Txns : Abort(t) /\ UNCHANGED <<engineVars, restVars>>
    \/ \E t \in Txns : AbortResume(t) /\ UNCHANGED <<engineVars, restVars>>
    \/ \E t \in Txns : Drop(t) /\ UNCHANGED <<engineVars, restVars>>
    \/ \E o \in Outcomes : DropWorker(o) /\ UNCHANGED <<engineVars, restVars>>
    \/ DropWorkerStop /\ UNCHANGED <<engineVars, restVars>>
    \/ Discard /\ UNCHANGED <<clientVars, modelVars>>

SpecWorker == Init /\ [][NextWorker]_vars

\* SpecComplete: callers of complete_job on one job, concurrently
NextComplete ==
    \/ \E c \in Clients : ApiCall(c, "complete_job", 0) /\ UNCHANGED boardRest
    \/ \E c \in Clients, o \in {200, 500} : ApiBegin(c, o) /\ UNCHANGED boardRest
    \/ \E c \in Clients, ok \in BOOLEAN : CompleteJobGetJob(c, ok) /\ UNCHANGED boardRest
    \/ \E c \in Clients, ok \in BOOLEAN :
           generate_job_completion_report(c, ok) /\ UNCHANGED boardRest
    \/ \E c \in Clients, ok \in BOOLEAN : CompleteJobGetUser(c, ok) /\ UNCHANGED boardRest
    \/ \E c \in Clients, ok \in BOOLEAN : CompleteJobCharacters(c, ok) /\ UNCHANGED boardRest
    \/ \E c \in Clients, o \in Outcomes : ApiCommit(c, o) /\ UNCHANGED boardRest
    \/ \E c \in Clients : ApiMatch(c) /\ UNCHANGED boardRest

SpecComplete == InitComplete /\ [][NextComplete]_vars

\* SpecTakeJob: callers of take_job for one character, concurrently
NextTakeJob ==
    \/ \E c \in Clients : ApiCall(c, "take_job", 0) /\ UNCHANGED boardRest
    \/ \E c \in Clients, o \in {200, 500} : ApiBegin(c, o) /\ UNCHANGED boardRest
    \/ \E c \in Clients, ok \in BOOLEAN : TakeJobGetUser(c, ok) /\ UNCHANGED boardRest
    \/ \E c \in Clients, ok \in BOOLEAN : TakeJobCharacters(c, ok) /\ UNCHANGED boardRest
    \/ \E c \in Clients, ok \in BOOLEAN, listed \in BOOLEAN :
           TakeJobPreoccupied(c, ok, listed) /\ UNCHANGED boardRest
    \/ \E c \in Clients, o \in Outcomes : ApiCommit(c, o) /\ UNCHANGED boardRest
    \/ \E c \in Clients : ApiMatch(c) /\ UNCHANGED boardRest

SpecTakeJob == InitTakeJob /\ [][NextTakeJob]_vars

\* SpecStage: callers of promote_staged_card and scrap_staged_card, concurrently
NextStage ==
    \/ \E c \in Clients, op \in {"promote_staged_card", "scrap_staged_card"},
          requested_card_id \in CardIds :
           ApiCall(c, op, requested_card_id) /\ UNCHANGED boardRest
    \/ \E c \in Clients, o \in {200, 500} : ApiBegin(c, o) /\ UNCHANGED boardRest
    \/ \E c \in Clients, ok \in BOOLEAN : StageGetUser(c, ok) /\ UNCHANGED boardRest
    \/ \E c \in Clients, ok \in BOOLEAN : PromoteGetCard(c, ok) /\ UNCHANGED boardRest
    \/ \E c \in Clients, o \in Outcomes : ApiCommit(c, o) /\ UNCHANGED boardRest
    \/ \E c \in Clients : ApiMatch(c) /\ UNCHANGED boardRest

SpecStage == InitStage /\ [][NextStage]_vars

\* SpecRegistry: add_user and mutate_user_if on a loaded UserRegistry
NextRegistry ==
    \/ \E id \in UserIds, user \in RegistryUsers, write_ok \in BOOLEAN :
           add_user(id, user, write_ok) /\ UNCHANGED registryRest
    \/ \E id \in UserIds, met \in BOOLEAN, write_ok \in BOOLEAN,
          mutated \in {None} \cup {Some(u) : u \in RegistryUsers} :
           mutate_user_if(id, met, mutated, write_ok) /\ UNCHANGED registryRest

SpecRegistry == InitRegistry /\ [][NextRegistry]_vars

C2_BufferedUntilCommit ==
    [][/\ (lastOp'.op \in Kinds /\ lastOp'.tx # NoTx) =>
             /\ lastOp'.sent = <<>>
             /\ docs' = docs
             /\ lastOp'.open =>
                   /\ IsSome(transactions'[lastOp'.tx].writes)
                   /\ Unwrap(transactions'[lastOp'.tx].writes) =
                        Append(Unwrap(transactions[lastOp'.tx].writes),
                               [kind |-> IF lastOp'.op = "upsert" THEN "update" ELSE "delete",
                                name |-> lastOp'.name,
                                doc |-> Unwrap(hist'[lastOp'.tx].buffered[lastOp'.name])])
       /\ docs' # docs =>
             \/ lastOp'.op \in Kinds /\ lastOp'.tx = NoTx
             \/ lastOp'.op = "commit" /\ lastOp'.open
       /\ \A t \in Txns :
             hist'[t].finalizedBy \in {"abort", "drop"} => ~hist'[t].applied
      ]_vars

\* the second write was buffered and the store still holds something else
C2_Witness ==
    /\ lastOp.op = "upsert"
    /\ lastOp.tx # NoTx
    /\ lastOp.open
    /\ Len(Unwrap(transactions[lastOp.tx].writes)) = 2
    /\ docs[lastOp.name] # Unwrap(hist[lastOp.tx].buffered[lastOp.name])

C4_CommitOutcome ==
    (lastOp.op = "commit" /\ lastOp.open)
        => /\ lastOp.sent = <<"commit">>
           /\ ~IsOpen(lastOp.tx)
           /\ lastOp.status = 200 => lastOp.res = Ok(None)
           /\ lastOp.status = 409 =>
                 /\ ~lastOp.res.ok
                 /\ lastOp.res.err = "Transaction"
                 /\ classify(ErrorFrom(lastOp.res.err)) = "InternalRetryable"
           /\ lastOp.status \notin {200, 409} =>
                 /\ ~lastOp.res.ok
                 /\ classify(ErrorFrom(lastOp.res.err)) # "InternalRetryable"

\* a commit that the store refused for contention
C4_Witness ==
    /\ lastOp.op = "commit"
    /\ lastOp.open
    /\ lastOp.status = 409
    /\ lastOp.res.err = "Transaction"

\* C7 (as stated, its safety part): the rollback of a handle discarded while
\* Open that the worker has not sent yet is still in the channel of a running
\* worker; nothing else would ever send it.
C7_RollbackStillComing ==
    \A t \in Txns :
        (hist[t].finalizedBy = "drop" /\ ~hist[t].rollbackSent)
            => /\ drop_worker = "running"
               /\ \E i \in 1..Len(drop_queue) : drop_queue[i] = t

\* the decodable documents of the collection, as list returns them
Decodable == {n \in Names : IsSome(docs[n]) /\ Unwrap(docs[n]).fits}

\* C9: a commit that the store accepts is one request, tagged with the
\* transaction, that applies all buffered writes in one step and in order (the
\* last write to a name wins); a get without transaction returns what the
\* store holds, and a list that no writer disturbed returns every decodable
\* document.
C9_CommitApplies ==
    [][/\ (lastOp'.op = "commit" /\ lastOp'.open /\ hist'[lastOp'.tx].applied) =>
             /\ lastOp'.sent = <<"commit">>
             /\ \A n \in Names :
                   docs'[n] = IF IsSome(hist[lastOp'.tx].buffered[n])
                              THEN Unwrap(hist[lastOp'.tx].buffered[n])
                              ELSE docs[n]
       /\ (lastOp'.op = "get" /\ lastOp'.tx = NoTx /\ lastOp'.status = 200
              /\ lastOp'.name \in Decodable) =>
             lastOp'.res = Ok(Some(Unwrap(docs[lastOp'.name]).v))
       /\ (lastOp'.op = "list" /\ lastOp'.res.ok /\ ~listing'.dirty) =>
             /\ {lastOp'.res.val[i].name : i \in 1..Len(lastOp'.res.val)} = Decodable
             /\ \A i \in 1..Len(lastOp'.res.val) :
                   lastOp'.res.val[i].v = Unwrap(docs[lastOp'.res.val[i].name]).v
      ]_vars

\* a commit of writes to every name was applied
C9_Witness ==
    /\ lastOp.op = "commit"
    /\ lastOp.res.ok
    /\ hist[lastOp.tx].applied
    /\ hist[lastOp.tx].wrote = Names
    /\ \A n \in Names : docs[n] = Unwrap(hist[lastOp.tx].buffered[n])

\* C5: an operation under the retry loop makes at most three attempts; every
\* attempt that was followed by another one ended in a retryable error; when
\* the third attempt ends in contention too, that error is returned.
C5_AtMostThreeAttempts ==
    \A c \in Clients :
        /\ calls[c].att <= InitialRetries + 1
        /\ \A i \in 1..Len(calls[c].log) :
              (i < Len(calls[c].log) \/ calls[c].pc # "idle")
                  => classify(calls[c].log[i]) = "InternalRetryable"
        /\ (/\ calls[c].pc = "idle"
            /\ Len(calls[c].log) = InitialRetries + 1
            /\ classify(calls[c].log[InitialRetries + 1]) = "InternalRetryable")
               => calls[c].ret = Err("StorageTransaction", "")

\* the caller got the contention error of its third attempt
C5_Witness ==
    \E c \in Clients :
        /\ calls[c].pc = "idle"
        /\ calls[c].att = 3
        /\ calls[c].log = <<"StorageTransaction", "StorageTransaction",
                            "StorageTransaction">>
        /\ calls[c].ret = Err("StorageTransaction", "")

\* C6: an attempt that ends in success or in an error that is not retryable is
\* returned at once: the loop makes no further attempt.
C6_ReturnsImmediately ==
    [][\A c \in Clients :
          (/\ calls[c].pc = "match"
           /\ calls[c].ret.ok \/ classify(calls[c].ret.err) # "InternalRetryable"
           /\ calls'[c] # calls[c])
              => /\ calls'[c].pc = "idle"
                 /\ calls'[c].ret = calls[c].ret
                 /\ calls'[c].att = calls[c].att
      ]_vars

\* a success after one retry, and returned
C6_Witness ==
    \E c \in Clients :
        /\ calls[c].pc = "idle"
        /\ calls[c].att = 2
        /\ calls[c].log = <<"StorageTransaction", "">>
        /\ calls[c].ret.ok

RECURSIVE SumClaims(_)
SumClaims(d) == IF d < 0 THEN 0 ELSE ledger.claims[d] + SumClaims(d - 1)

\* the user's currency is the start plus every applied claim minus every
\* applied draw: no applied update was overwritten
LedgerHolds ==
    /\ IsSome(docs[UserName])
    /\ Unwrap(docs[UserName]).v.currency =
          ledger.start + DAILY_CURRENCY_REWARD * SumClaims(MaxDay)
                       - DRAW_COST * ledger.draws

\* the step is the commit of the Open transaction t
CommitStep(t) ==
    /\ IsSome(transactions[t].writes)
    /\ IsNone(transactions'[t].writes)
    /\ lastOp'.op = "commit"
    /\ lastOp'.tx = t

\* C8: of two read-write transactions that read the same document at the same
\* version and both update it, only one commit is applied: a commit is applied
\* only when nothing it read was written since, it makes every other
\* transaction that read what it wrote stale, and the commit of a stale
\* transaction changes nothing and reports contention; no update is lost.
C8_OneCommitWins ==
    [][/\ \A t \in Txns :
             CommitStep(t) =>
                /\ hist'[t].applied => ~Stale(t)
                /\ hist'[t].applied =>
                      \A u \in Txns \ {t} :
                          (\E n \in hist'[t].wrote : remote[u].reads[n] # NotRead)
                              => StaleIn(remote', ver', u)
                /\ (Stale(t) /\ lastOp'.status \in {200, 400, 409}) =>
                      /\ lastOp'.status = 409
                      /\ lastOp'.res = Err("Transaction",
                                           "Document contention, try again later")
                      /\ docs' = docs
       /\ LedgerHolds'
      ]_vars

\* two callers read the user at the same version; one commit was applied, the
\* other was refused with contention
C8_Witness ==
    \E c, d \in Clients :
        /\ c # d
        /\ lastOp.op = "commit"
        /\ lastOp.status = 409
        /\ calls[d].tx = lastOp.tx
        /\ calls[d].pc = "unwind"
        /\ calls[d].ret = Err("StorageTransaction", "")
        /\ calls[c].op # "none"
        /\ calls[c].pc \in {"unwind", "match", "idle"}
        /\ calls[c].ret.ok

\* C10: within one day at most one claim is applied to the user, whose
\* currency grows by one DAILY_CURRENCY_REWARD for it; a claim entered after
\* the reward of the day was applied returns DailyAlreadyClaimed (or the
\* storage error of a request that failed).
C10_OneRewardPerDay ==
    /\ \A d \in Days : ledger.claims[d] <= 1
    /\ LedgerHolds
    /\ \A c \in Clients :
          (/\ calls[c].pc = "idle"
           /\ calls[c].op = "claim"
           /\ calls[c].late
           /\ calls[c].day = today)
              => /\ ~calls[c].ret.ok
                 /\ calls[c].ret.err \in {"DailyAlreadyClaimed", "StorageGeneric"}

\* both callers claimed on the same day: one reward, the other caller was told
\* that the day is claimed
C10_Witness ==
    \E c, d \in Clients :
        /\ c # d
        /\ calls[c].pc = "idle" /\ calls[c].op = "claim" /\ calls[c].ret.ok
        /\ calls[d].pc = "idle" /\ calls[d].op = "claim"
        /\ calls[d].ret = Err("DailyAlreadyClaimed", "")
        /\ calls[d].day = calls[c].day
        /\ ledger.claims[today] = 1
        /\ Unwrap(docs[UserName]).v.currency >= ledger.start + DAILY_CURRENCY_REWARD - DRAW_COST

\* C11 (as stated): after a failed background refresh (build_jwt or the token
\* exchange failed) the refresh task sleeps 10 seconds before its next
\* attempt.
C11_RetryInTenSeconds ==
    oauth_task.failed =>
        \/ oauth_task.pc \in {"loop", "exited"}
        \/ oauth_task.pc = "sleep" /\ oauth_task.delay = Duration(RetryDelay)

\* C12 (as stated): the delay the refresh task sleeps is a positive duration
\* that did not underflow, whatever the lifetime of the token, and computing
\* it does not fail.
C12_DelayPositive ==
    /\ oauth_task.pc # "panicked"
    /\ oauth_task.pc = "sleep" =>
          ~oauth_task.delay.wrapped /\ oauth_task.delay.secs > 0

\* C13 (as stated): a failed background refresh leaves the cached token as it
\* was and neither ends nor panics the refresh task.
C13_FailedRefreshHarmless ==
    oauth_task.failed =>
        /\ oauth_token = oauth_task.prev
        /\ oauth_task.pc # "panicked"

\* C14: reading the token never waits on a network call: the write lock is
\* held only for the assignment, after the token exchange returned, and no
\* request path holds the read lock while its request is on the network.
C14_TokenReadNeverWaitsOnNetwork ==
    /\ oauth_lock.writer => oauth_task.pc = "assign"
    /\ oauth_task.pc \in {"build_jwt", "exchange", "sleep"} => ~oauth_lock.writer
    /\ \A r \in oauth_lock.readers : requests[r].pc = "build"
    /\ \A r \in Requesters : requests[r].pc = "network" => r \notin oauth_lock.readers

\* a request path holds the read lock while the token exchange is in flight
C14_Witness ==
    /\ oauth_task.pc = "exchange"
    /\ \E r \in oauth_lock.readers : requests[r].pc = "build"
    /\ \E r \in Requesters : requests[r].pc = "network"

\* C15 (as stated): once the manager is discarded the refresh task performs
\* no token exchange and does not write the token again.
C15_NothingAfterDiscard ==
    manager = "discarded" =>
        after_discard.exchanges = 0 /\ after_discard.writes = 0

\* C15 (amended): once the manager is discarded the refresh task never starts
\* another sleep; a task that was asleep exits at its wake-up without a token
\* exchange and without writing the token; a task that had passed the check
\* after its wake-up finishes the refresh it is in (at most one token
\* exchange and one write of the token) and exits.
C15_ExitsAfterAtMostOneRefresh ==
    manager = "discarded" =>
        /\ after_discard.sleeps = 0
        /\ after_discard.exchanges <= 1
        /\ after_discard.writes <= 1
        /\ after_discard.asleep =>
              after_discard.exchanges = 0 /\ after_discard.writes = 0
        /\ oauth_task.pc = "exited" => try_recv(manager) = "Closed"

\* the manager was discarded while the task slept, and the task exited
C15_Witness ==
    /\ manager = "discarded"
    /\ after_discard.asleep
    /\ oauth_task.pc = "exited"

\* C16 (as stated): a rollback request that failed, by a non-success status or
\* by a transport failure, leaves the drop worker running, and the rollbacks
\* queued behind it stay in the channel for the worker to process.
C16_WorkerSurvivesFailedRollback ==
    (lastOp.op = "rollback" /\ lastOp.status # 200) =>
        /\ drop_worker = "running"
        /\ \A t \in Txns :
              (hist[t].enqueued > 0 /\ ~hist[t].rollbackSent) =>
                  \E i \in 1..Len(drop_queue) : drop_queue[i] = t

\* the document batch_get had for id: from the response when the name was
\* asked of the store, else from the read cache of the transaction
BatchSource(id) ==
    IF id \in lastOp.prior THEN docs[id]
    ELSE transactions[lastOp.tx].read_cache[id]

\* C17 (as stated): a batch_get that returns Ok returns a map with one entry
\* for every requested id, Some for a document that was found (in the read
\* cache or by the store) and None for a missing one, and the merge does not
\* panic.
C17_OneEntryPerId ==
    lastOp.op = "batch_get" =>
        /\ lastOp.res.err # "Panic"
        /\ lastOp.res.ok =>
              /\ DOMAIN lastOp.res.val = lastOp.name
              /\ \A id \in lastOp.name :
                    lastOp.res.val[id] =
                        IF IsSome(BatchSource(id))
                        THEN Some(Unwrap(BatchSource(id)).v) ELSE None

\* C18 (as stated): a list of a collection that no writer touched meanwhile
\* returns exactly the documents the collection holds, each once, in the
\* order of the pages.
C18_ListReturnsAll ==
    (lastOp.op = "list" /\ lastOp.res.ok /\ ~listing.dirty) =>
        [i \in 1..Len(lastOp.res.val) |-> lastOp.res.val[i].name]
            = FirstN(Existing(0), MaxName)

\* C19 (as stated): get, list and batch_get return an error whenever a
\* document they fetched (or took from the read cache) does not decode: no
\* such operation returns Ok.
C19_DecodeFailureIsError ==
    /\ (lastOp.op = "get" /\ lastOp.status = 200 /\ lastOp.res.ok) =>
          lastOp.name \in Decodable
    /\ (lastOp.op = "list" /\ lastOp.res.ok /\ ~listing.dirty) =>
          Existing(0) \subseteq Decodable
    /\ (lastOp.op = "batch_get" /\ lastOp.res.ok) =>
          \A id \in lastOp.name :
              IsSome(BatchSource(id)) => Unwrap(BatchSource(id)).fits

\* C20 (as stated): an upsert or a delete scoped to a transaction that was
\* begun ReadOnly returns an error and leaves the write buffer empty.
C20_ReadOnlyRejectsWrites ==
    (/\ lastOp.op \in Kinds
     /\ lastOp.tx # NoTx
     /\ lastOp.open
     /\ remote[lastOp.tx].state = "active"
     /\ remote[lastOp.tx].kind = "ReadOnly") =>
        /\ ~lastOp.res.ok
        /\ transactions[lastOp.tx].writes = Some(<<>>)

\* what the caller is given for a document: its decoded value, None when it is
\* absent
Given(doc) == IF IsSome(doc) THEN Some(Unwrap(doc).v) ELSE None

\* C21: a transaction does not observe its buffered writes: a get that went
\* to the store returns what the store holds, a get answered by the read
\* cache returns the cached document, batch_get returns for every id what the
\* cache or the store holds, and appending a write leaves the read cache as
\* it was.
C21_NoOwnWrites ==
    [][/\ (lastOp'.op \in Kinds /\ lastOp'.tx # NoTx) =>
             transactions'[lastOp'.tx].read_cache = transactions[lastOp'.tx].read_cache
       /\ (lastOp'.op = "get" /\ lastOp'.tx # NoTx /\ lastOp'.res.ok) =>
             lastOp'.res.val =
                IF lastOp'.sent = <<>>
                THEN Given(transactions[lastOp'.tx].read_cache[lastOp'.name])
                ELSE Given(docs[lastOp'.name])
       /\ (lastOp'.op = "batch_get" /\ lastOp'.tx # NoTx /\ lastOp'.res.ok) =>
             \A id \in lastOp'.name :
                 lastOp'.res.val[id] \in
                     {None,
                      Given(IF id \in lastOp'.prior THEN docs[id]
                            ELSE transactions[lastOp'.tx].read_cache[id])}
      ]_vars

\* a get and a batch_get of a name went to the store after the transaction
\* had buffered a write of something else to it
C21_Witness ==
    /\ lastOp.op \in {"get", "batch_get"}
    /\ lastOp.tx # NoTx
    /\ lastOp.res.ok
    /\ lastOp.sent # <<>>
    /\ IsSome(hist[lastOp.tx].buffered[1])
    /\ Unwrap(hist[lastOp.tx].buffered[1]) # docs[1]
    /\ lastOp.op = "batch_get" => 1 \in lastOp.prior
    /\ lastOp.op = "get" => lastOp.name = 1

\* C22: a get whose request the store answered for a name without document,
\* with a live transaction or with none, returns Ok(None); NOT_FOUND is the
\* store's answer exactly then.
C22_AbsentIsNone ==
    (lastOp.op = "get" /\ lastOp.sent = <<"GET">>) =>
        /\ lastOp.status = 404 =>
              (lastOp.res = Ok(None) /\ IsNone(docs[lastOp.name]))
        /\ (/\ IsNone(docs[lastOp.name])
            /\ lastOp.status \notin {500, Transport}
            /\ lastOp.tx # NoTx => remote[lastOp.tx].state = "active")
              => lastOp.res = Ok(None)

\* a get with a transaction found no document
C22_Witness ==
    /\ lastOp.op = "get"
    /\ lastOp.tx # NoTx
    /\ lastOp.status = 404
    /\ lastOp.res = Ok(None)

\* C23: insert is create-only: for a name that has a document it leaves the
\* document as it is and, when the store's answer arrives, returns
\* Error::Conflict; for a new name the store creates the document with the
\* given value and insert returns Ok on the success status; Conflict is
\* returned in no other case.
C23_InsertCreateOnly ==
    [][lastOp'.op = "insert" =>
          /\ IsSome(docs[lastOp'.name]) =>
                /\ docs' = docs
                /\ lastOp'.status \notin {500, Transport} =>
                      (~lastOp'.res.ok /\ lastOp'.res.err = "Conflict")
          /\ (IsNone(docs[lastOp'.name]) /\ lastOp'.status = 200) =>
                /\ lastOp'.res.ok
                /\ docs' = [docs EXCEPT ![lastOp'.name] =
                               Some(Document(Unwrap(lastOp'.prior)))]
          /\ lastOp'.res.err = "Conflict" => IsSome(docs[lastOp'.name])
      ]_vars

\* insert was refused for a name whose document holds another value
C23_Witness ==
    /\ lastOp.op = "insert"
    /\ lastOp.res.err = "Conflict"
    /\ IsSome(docs[lastOp.name])
    /\ Unwrap(docs[lastOp.name]).v # Unwrap(lastOp.prior)

\* C24: for every entity type (User, Card, Character, Job, JobPrototype) and
\* every value x, decoding the document that encoding x produced, with its
\* name set to a path ending in the id of x, gives x again; integer fields
\* travel as decimal strings.
C24_RoundTrip ==
    (/\ codec.stage = "decoded"
     /\ ~codec.echoed
     /\ codec.damage.how = "none"
     /\ codec.entity \in Entities)
        => (codec.res.ok /\ Value(codec.res) = codec.x)

C24_Witness ==
    /\ codec.stage = "decoded"
    /\ ~codec.echoed
    /\ codec.damage.how = "none"
    /\ codec.entity = "Card"
    /\ codec.x.stat_base.physical < 0
    /\ codec.x.stat_multiplier.mental = F64(9, 0 - 1)
    /\ codec.res.ok

\* C25: a double field decodes also after the server stored an integral
\* double as an integer: the document that echoes the field as an
\* IntegerValue holding the decimal string of d decodes to d, for a double
\* at the top level of the document and for one inside a stat block.
C25_CollapsedDoubleDecodes ==
    (codec.stage = "decoded" /\ codec.echoed)
        => (codec.res.ok /\ Value(codec.res) = codec.x)

\* C26: decoding a document in which a required field is missing, or holds
\* a value of the wrong kind, returns a decode error that names the field
\* and the expected kind; it never panics and never puts a default or an
\* absent value in the place of the field.
C26_DecodeErrorNamesFieldAndKind ==
    (codec.stage = "decoded" /\ codec.damage.how # "none")
        => /\ ~codec.res.ok
           /\ codec.res.err = "Decode"
           /\ codec.damage.how \in {"missing", "wrong_tag"}
                 => /\ \/ codec.res.field = codec.damage.field
                       \/ (codec.damage.inner # "" /\ codec.res.field = codec.damage.inner)
                    /\ codec.res.kind = codec.damage.kind

\* C27: upsert_card(card) inserts when the id is new and returns None,
\* replaces when the id exists and returns the replaced card; afterwards the
\* compendium in memory and the file both map card.id to the given card.
C27_UpsertCard ==
    (IsSome(compendium.last.card) /\ compendium.last.res.ok)
        => /\ compendium.last.res.val = compendium.last.before
           /\ compendium.current[Unwrap(compendium.last.card).id] = compendium.last.card
           /\ compendium.file[Unwrap(compendium.last.card).id] = compendium.last.card

\* C28: complete_job succeeds only for a job whose completion time has
\* passed; for a job whose completion time is still ahead it returns
\* JobNotComplete (unless the store failed) and changes nothing.
C28_CompleteOnlyWhenDue ==
    (jobs.last.job # 0 /\ IsSome(jobs.last.completion_time))
        => /\ jobs.last.res.ok => Unwrap(jobs.last.completion_time) <= jobs.last.at
           /\ Unwrap(jobs.last.completion_time) > jobs.last.at
                 => /\ ~jobs.last.changed
                    /\ jobs.last.res.err \in {"JobNotComplete", "StorageGeneric"}

\* C29: once a document is in the read cache of a transaction, the entry of
\* that name is never removed and never replaced by a different document
\* as long as the transaction lives, also when several get calls for the
\* name run together on the transaction.
C29_CacheEntryStable ==
    [][\A t \in Txns, n \in Names :
          (/\ transactions[t].state = "held"
           /\ transactions'[t].state = "held"
           /\ IsSome(transactions[t].read_cache[n]))
              => transactions'[t].read_cache[n] = transactions[t].read_cache[n]]_vars

\* C30: discarding an Open transaction never blocks the call site: the
\* rollback request is offered to the bounded queue without waiting, also
\* when the queue is full or the worker has stopped.  A step that discards
\* an Open handle finishes the discard at once and leaves no caller waiting
\* for a slot; the request is queued when there is room and the worker
\* runs, and given up otherwise.
C30_DiscardNeverWaits ==
    [][\A t \in Txns :
          (/\ transactions[t].state = "held"
           /\ IsOpen(t)
           /\ transactions'[t].state = "dropped")
              => /\ abort_waiting' = abort_waiting
                 /\ t \notin abort_waiting'
                 /\ IF ChannelClosed \/ ChannelFull
                    THEN drop_queue' = drop_queue
                    ELSE drop_queue' = Append(drop_queue, t)]_vars

\* an Open handle was discarded while the queue was full of other requests
C30_Witness ==
    /\ lastOp.op = "drop"
    /\ lastOp.open
    /\ ChannelFull
    /\ \A i \in 1..Len(drop_queue) : drop_queue[i] # lastOp.tx
    /\ transactions[lastOp.tx].state = "dropped"

\* C31: the cleanup worker is never stopped preemptively: it handles the
\* queued rollback requests one at a time in the order they were queued, and
\* it stops only after the manager and every transaction handle have been
\* discarded and every request already queued has been processed.
C31_WorkerStopsOnlyWhenDone ==
    drop_worker # "running"
        => /\ manager = "discarded"
           /\ Held = {}
           /\ \A t \in Txns : hist[t].enqueued > 0 => hist[t].rollbackSent

\* C32: a rollback request is enqueued for a transaction if and only if the
\* transaction was aborted or discarded while Open, and then exactly once; a
\* transaction on which commit was called never gets one, whatever the
\* outcome of the commit.  (An abort still waiting for a slot has not
\* returned yet.)
C32_EnqueuedIffAbortedOrDiscardedOpen ==
    \A t \in Txns :
        /\ hist[t].enqueued <= 1
        /\ t \notin abort_waiting
              => (hist[t].enqueued = 1
                     <=> hist[t].finalizedBy \in {"abort", "drop"})

C34_PaysAtMostOnceAtomically ==
    LET paid == Len(board.applied)
        user == Unwrap(board.docs[UserDoc])
        ch == Unwrap(board.docs[CharacterDoc(0)])
        ch0 == Unwrap(board.start[CharacterDoc(0)])
        after == experience_add(ch0.level, ch0.experience, EXP_GAIN)
    IN  /\ paid <= 1
        /\ user.currency = Unwrap(board.start[UserDoc]).currency + paid * CURRENCY_GAIN
        /\ ch = IF paid = 0 THEN ch0
                ELSE [ch0 EXCEPT !.level = after.level, !.experience = after.exp]
        /\ IsNone(board.docs[JobDoc(0)]) <=> paid = 1
        /\ \A c \in Clients :
              (board.run[c].late /\ board.run[c].pc = "idle")
                 => board.run[c].ret.err \in {"JobNotFound", "StorageGeneric"}

\* one call was paid while another had read the job too, and a call made
\* afterwards was told JobNotFound
C34_Witness ==
    /\ Len(board.applied) = 1
    /\ \E c \in Clients :
          /\ board.run[c].late
          /\ board.run[c].pc = "idle"
          /\ board.run[c].ret.err = "JobNotFound"
    /\ \E c \in Clients :
          /\ ~board.run[c].late
          /\ board.run[c].pc = "idle"
          /\ board.run[c].retries < InitialRetries
          /\ board.run[c].ret.err = "JobNotFound"

\* C35: after any interleaving of take_job calls for one user, no character
\* id appears in more than one of the user's job documents: take_job returns
\* CharacterPreoccupied and creates no job when a requested character is on a
\* job already, also when two calls naming the character run concurrently.
C35_OneJobPerCharacter ==
    \A k \in {0} \cup FreshIds :
        Cardinality({j \in {0} \cup FreshIds :
                        /\ IsSome(board.docs[JobDoc(j)])
                        /\ k \in Unwrap(board.docs[JobDoc(j)]).character_ids}) <= 1

\* C36: a staged card is consumed at most once: over every interleaving of
\* concurrent promote_staged_card and scrap_staged_card calls for one user
\* and one staged card, at most one call's commit is applied, so the user has
\* either exactly one new character or exactly one refund and the stage is
\* empty afterwards, or nothing has changed; a call whose requested card id
\* differs from the staged id returns IdMismatch and changes nothing.
C36_StagedCardConsumedOnce ==
    LET n == Len(board.applied)
        user == Unwrap(board.docs[UserDoc])
        start == Unwrap(board.start[UserDoc])
        scraps == {i \in 1 .. n : board.applied[i].op = "scrap_staged_card"}
        promotes == {i \in 1 .. n : board.applied[i].op = "promote_staged_card"}
        characters == {k \in FreshIds : IsSome(board.docs[CharacterDoc(k)])}
    IN  /\ n <= 1
        /\ user.staged_card = IF n = 0 THEN start.staged_card ELSE None
        /\ user.currency = start.currency + Cardinality(scraps) * SCRAP_REFUND
        /\ Cardinality(characters) = Cardinality(promotes)
        /\ \A k \in characters :
              Unwrap(board.docs[CharacterDoc(k)]).prototype_id
                 = Unwrap(start.staged_card)
        /\ \A i \in 1 .. n : board.applied[i].arg = Unwrap(start.staged_card)
        /\ \A c \in Clients :
              LET r == board.run[c]
              IN  /\ (r.pc \in {"match", "idle"} /\ r.n > 0 /\ r.ret.ok)
                        => (n = 1 /\ board.applied[1].c = c)
                  /\ (r.pc \in {"card", "commit"}) => r.arg = Unwrap(start.staged_card)
                  /\ (r.pc = "idle" /\ r.n > 0 /\ r.retries = InitialRetries
                         /\ r.arg # Unwrap(start.staged_card) /\ n = 0)
                        => r.ret.err \in {"IdMismatch", "StorageGeneric"}

\* a scrap was applied while a promote of the same card was under way; the
\* promote was told of the contention, tried again and found the stage empty
C36_Witness ==
    /\ Len(board.applied) = 1
    /\ board.applied[1].op = "scrap_staged_card"
    /\ \E c \in Clients :
          /\ board.run[c].op = "promote_staged_card"
          /\ board.run[c].pc = "idle"
          /\ board.run[c].retries < InitialRetries
          /\ board.run[c].ret.err = "DrawStageEmpty"

\* C37: a batch_get scoped to a transaction issues exactly one remote call,
\* for the requested names that are not in the read cache (the call is made
\* also when there is none), and leaves the read cache of the transaction as
\* it was: what it fetched is not cached for a later get or batch_get.
C37_BatchGetOneCallCacheUntouched ==
    [][(lastOp'.op = "batch_get" /\ lastOp'.tx # NoTx)
          => /\ lastOp'.sent = <<"batchGet">>
             /\ lastOp'.prior = {n \in lastOp'.name :
                                    IsNone(transactions[lastOp'.tx].read_cache[n])}
             /\ transactions' = transactions]_vars

\* a batch_get of a cached name only: the request went out with no name, and
\* the other name, fetched by an earlier batch_get, is still not in the cache
C37_Witness ==
    /\ lastOp.op = "batch_get"
    /\ lastOp.tx # NoTx
    /\ lastOp.status = 200
    /\ lastOp.name # {}
    /\ lastOp.prior = {}
    /\ lastOp.sent = <<"batchGet">>
    /\ \E n \in Names :
          /\ remote[lastOp.tx].reads[n] # NotRead
          /\ IsNone(transactions[lastOp.tx].read_cache[n])

\* C38: UserRegistry keeps memory and storage in step: after any sequence of
\* add_user and mutate_user_if calls every user in the in-memory map equals
\* the last value successfully written to storage for its id; when the
\* precondition fails, the closure fails or the storage write fails, the
\* in-memory user is as it was before the call (a user whose first write
\* failed is not left registered).
C38_MemoryEqualsStorage ==
    /\ \A id \in UserIds :
          IsSome(registry.current[id]) => registry.current[id] = registry.storage[id]
    /\ registry.last.res \in {"FailedPrecondition", "ExternalOperation", "Storage"}
          => registry.current[registry.last.id] = registry.last.before
====
